---- MODULE Spec2Model ----
(***************************************************************************)
(* Model of the FIA F1 documents bot: the poll loop of main(), the worker  *)
(* units running processDocument, the PostgreSQL dedup store and the       *)
(* shutdown handshake of the service.                                      *)
(***************************************************************************)
EXTENDS Naturals, Integers, Sequences, FiniteSets, Bags, TLC

(***************************************************************************)
(* Bounds of the model                                                     *)
(***************************************************************************)
MaxDocs == 2
PoolDocs == 6
MaxCycles == 2
MaxFaults == 1
MaxSignals == 2
MaxPub == 2

(***************************************************************************)
(* Program constants                                                       *)
(***************************************************************************)
maxConcurrentProcessing == 5
documentsToFetch == 8

(***************************************************************************)
(* Strings are sequences of one-character strings                          *)
(***************************************************************************)
UpperChars == <<"A", "C", "D", "E", "L", "R", "U">>
LowerChars == <<"a", "c", "d", "e", "l", "r", "u">>

ToLowerChar(c) ==
    IF \E i \in 1..Len(UpperChars) : UpperChars[i] = c
    THEN LowerChars[CHOOSE i \in 1..Len(UpperChars) : UpperChars[i] = c]
    ELSE c

ToLower(s) == [i \in 1..Len(s) |-> ToLowerChar(s[i])]

HasPrefix(s, p) == Len(s) >= Len(p) /\ SubSeq(s, 1, Len(p)) = p

Contains(s, p) ==
    \E i \in 1..(Len(s) + 1) :
        i + Len(p) - 1 <= Len(s) /\ SubSeq(s, i, i + Len(p) - 1) = p

MarkerPrefix == <<"r", "e", "c", "a", "l", "l", "e", "d">>
MarkerEmbedded == <<"r", "e", "c", "a", "l", "l", "e", "d", " ", "-">>

\* variant: the title is compared as it is written
IsRecalledDocumentCaseSensitive(doc) ==
    \/ HasPrefix(doc.title, MarkerPrefix)
    \/ Contains(doc.title, MarkerEmbedded)

\* scraper.IsRecalledDocument: pure predicate on the title
IsRecalledDocument(doc) ==
    \/ HasPrefix(ToLower(doc.title), MarkerPrefix)
    \/ Contains(ToLower(doc.title), MarkerEmbedded)

(***************************************************************************)
(* Documents the listing page can show                                     *)
(***************************************************************************)
TitleDoc == <<"D", "o", "c", " ", "2", "3">>
TitleRecalled == <<"R", "E", "C", "A", "L", "L", "E", "D", " ", "-", " ", "D", "o", "c">>

DocA == [title |-> TitleDoc, url |-> "u1", published |-> 3]
DocR == [title |-> TitleRecalled, url |-> "u1", published |-> 2]
DocB == [title |-> TitleDoc, url |-> "u2", published |-> 1]

Documents == {DocA, DocR, DocB}

\* a page of PoolDocs regular documents, each shown once
PoolPage ==
    {DocA, DocB,
     [title |-> TitleDoc, url |-> "u3", published |-> 4],
     [title |-> TitleDoc, url |-> "u4", published |-> 5],
     [title |-> TitleDoc, url |-> "u5", published |-> 6],
     [title |-> TitleDoc, url |-> "u6", published |-> 7]}

\* the dedup key of a document or of a stored row
KeyOf(d) == <<d.title, d.url>>
Keys == {KeyOf(d) : d \in Documents \cup PoolPage}

\* variant: the row is stamped with the time of processing (0: later than no
\* listed time)
ProcessedDocumentStampedNow(doc) ==
    [title |-> doc.title, url |-> doc.url, timestamp |-> 0]

\* storage.ProcessedDocument built by the callers of AddProcessedDocument
ProcessedDocument(doc) ==
    [title |-> doc.title, url |-> doc.url, timestamp |-> doc.published]

\* result of sortDocumentsByDate: most recent first
IsSortedByDate(s) ==
    \A i \in 1..(Len(s) - 1) : s[i].published >= s[i + 1].published

SeqsUpTo(S, n) == UNION {[1..k -> S] : k \in 0..n}

\* the listings FetchLatestDocuments can return when the page shows at most n
\* rows, each one of the documents in D
Listings(D, n) ==
    {s \in SeqsUpTo(D, IF n < documentsToFetch THEN n ELSE documentsToFetch) :
        IsSortedByDate(s)}

HasDuplicateKey(s) ==
    \E i, j \in 1..Len(s) : i # j /\ KeyOf(s[i]) = KeyOf(s[j])

(***************************************************************************)
(* The poster's text functions.  A text is a sequence of characters, and   *)
(* len counts its elements.                                                *)
(***************************************************************************)
maxCharacterLimit == 500
imageLimit == 20
MaxImages == 22
ellipsis == <<".", ".", ".">>

\* strings.LastIndex(s, c) for a one-character c: the 0-based index of the last
\* occurrence, -1 if there is none
LastIndex(s, c) ==
    IF \E i \in 1..Len(s) : s[i] = c
    THEN (CHOOSE i \in 1..Len(s) : s[i] = c /\ \A j \in (i + 1)..Len(s) : s[j] # c) - 1
    ELSE -1

truncateTextNoRoomForEllipsis(text, lim) ==
    IF Len(text) <= lim
    THEN text
    ELSE IF lim <= 0
         THEN <<>>
         ELSE LET lastSpace == LastIndex(SubSeq(text, 1, lim), " ")
              IN  IF lastSpace = -1
                  THEN SubSeq(text, 1, lim) \o ellipsis
                  ELSE SubSeq(text, 1, lastSpace) \o ellipsis

truncateTextCutAtLimit(text, lim) ==
    IF Len(text) <= lim
    THEN text
    ELSE IF lim - Len(ellipsis) <= 0
         THEN <<>>
         ELSE SubSeq(text, 1, lim - Len(ellipsis)) \o ellipsis

truncateText(text, lim) ==
    IF Len(text) <= lim
    THEN text
    ELSE LET l == lim - Len(ellipsis)
         IN  IF l <= 0
             THEN <<>>
             ELSE LET lastSpace == LastIndex(SubSeq(text, 1, l), " ")
                  IN  IF lastSpace = -1
                      THEN SubSeq(text, 1, l) \o ellipsis
                      ELSE SubSeq(text, 1, lastSpace) \o ellipsis

\* the pieces of the format strings of formatPostText
NewDocumentLabel == <<"N", "e", "w", " ", "d", "o", "c", "u", "m", "e", "n", "t", ":", " ">>
PublishedOnLabel == <<"\n", "P", "u", "b", "l", "i", "s", "h", "e", "d", " ", "o", "n", ":", " ">>
LinkLabel == <<"\n", "L", "i", "n", "k", ":", " ">>
AISummaryLabel == <<"\n", "\n", "A", "I", " ", "S", "u", "m", "m", "a", "r", "y", ":", " ">>

\* the text before the summary; shortenedURL is empty when the document has no
\* URL or ShortenURL failed
baseText(title, publishTime, shortenedURL) ==
    IF shortenedURL # <<>>
    THEN NewDocumentLabel \o title \o PublishedOnLabel \o publishTime
             \o LinkLabel \o shortenedURL \o AISummaryLabel
    ELSE NewDocumentLabel \o title \o PublishedOnLabel \o publishTime \o AISummaryLabel

remainingChars(title, publishTime, shortenedURL) ==
    maxCharacterLimit - Len(baseText(title, publishTime, shortenedURL))

formatPostText(title, publishTime, shortenedURL, aiSummary) ==
    baseText(title, publishTime, shortenedURL)
        \o truncateText(aiSummary, remainingChars(title, publishTime, shortenedURL))

\* the text PostTextOnly hands to CreateTextPost
PostTextOnlyText(text) ==
    IF Len(text) > maxCharacterLimit THEN truncateText(text, maxCharacterLimit) ELSE text

\* inputs of the text functions; the sets of calls are operators of the texts
\* they are drawn from
MaxText == 6
Alphabet == {"a", " "}
Texts == SeqsUpTo(Alphabet, MaxText)
Fill(n) == [i \in 1..n |-> "x"]
TimeUTC == <<"0", "3", "-", "1", "1", "-", "2", "0", "2", "5", " ", "1", "0", ":", "0", "0", " ", "U", "T", "C">>
TimeCEST == <<"0", "3", "-", "0", "7", "-", "2", "0", "2", "5", " ", "1", "0", ":", "0", "0", " ", "C", "E", "S", "T">>
ShortURL == <<"s", ".", "i", "o">>
LinkRoom == Len(LinkLabel) + Len(ShortURL) + 1
HeaderFixed == Len(baseText(<<>>, TimeUTC, <<>>))
TitleLens == (maxCharacterLimit - HeaderFixed - LinkRoom - MaxText - 1)..(maxCharacterLimit - HeaderFixed + 1)
NoticeLens == (maxCharacterLimit - MaxText)..maxCharacterLimit
NoCall == [fn |-> "none", text |-> <<>>, lim |-> 0, title |-> <<>>, time |-> <<>>, short |-> <<>>]
TruncateCalls(texts) ==
    {[NoCall EXCEPT !.fn = "truncateText", !.text = t, !.lim = l] : t \in texts, l \in (-1)..(MaxText + 1)}
FormatCalls(texts) ==
    {[NoCall EXCEPT !.fn = "formatPostText", !.text = t, !.title = Fill(n), !.time = tm, !.short = sh] :
        t \in texts, n \in TitleLens, tm \in {TimeUTC, TimeCEST}, sh \in {<<>>, ShortURL}}
NoticeCalls(texts) ==
    {[NoCall EXCEPT !.fn = "PostTextOnly", !.text = Fill(n) \o t] : t \in texts, n \in NoticeLens}
\* titles handed to IsRecalledDocument: an optional lead, a word, a tail
RecallTitles ==
    {lead \o word \o tail :
        lead \in {<<>>, <<"D", "o", "c", " ">>},
        word \in {<<"R", "e", "c", "a", "l", "l", "e", "d">>,
                  <<"R", "E", "C", "A", "L", "L", "E", "D">>,
                  <<"r", "e", "c", "a", "l", "l", "e", "d">>,
                  <<"r", "E", "c", "A", "l", "L", "e", "D">>,
                  <<"R", "e", "c", "a", "l", "l">>,
                  <<"D", "e", "c", "i", "s", "i", "o", "n">>},
        tail \in {<<>>, <<" ", "-", " ", "U", "p", "d", "a", "t", "e", "d", " ", "D", "o", "c", "u", "m", "e", "n", "t">>,
                  <<" ", "D", "o", "c", "u", "m", "e", "n", "t", " ", "2", "3">>}}
RecalledCalls(titles) ==
    {[NoCall EXCEPT !.fn = "IsRecalledDocument", !.title = t] : t \in titles}
TextCalls(texts) ==
    TruncateCalls(texts) \cup FormatCalls(texts) \cup NoticeCalls(texts) \cup RecalledCalls(RecallTitles)


(***************************************************************************)
(* State                                                                   *)
(***************************************************************************)
VARIABLES
    store,        \* bag of rows of table processed_documents
    dbUp,         \* the database server answers
    connOpen,     \* the handle s.db is open (not closed by Reconnect)
    budget,       \* failures of external services the run may still see
    loopPc,       \* position of the processing loop goroutine
    loopG,        \* phase of waitForDBConnection run by the loop
    docs,         \* listing of the current cycle
    idx,          \* position in docs, 0 before the listing is fetched
    processed,    \* value returned by IsDocumentProcessed for docs[idx]
    checkErr,     \* the query of that IsDocumentProcessed call failed
    loopFn,       \* ... and a row for the key existed (false negative)
    noticeOk,     \* the loop's recall notice for docs[idx] was posted
    marked,       \* calls of AddProcessedDocument by the loop for docs[idx]
    markErr,      \* the loop's AddProcessedDocument call returned an error
    units,        \* bag of the worker goroutines of the current cycle
    semaphore,    \* number of tokens in the semaphore channel
    wg,           \* counter of the WaitGroup
    cyclesLeft,   \* cycles the loop may still start
    limit,        \* number of rows the listing page shows at most
    page,         \* documents the listing page can show
    published,    \* successful publish calls per key (capped at MaxPub)
    storeErr,     \* some store query or insert has failed
    dupListed,    \* some listing held the same key twice
    noticeFailed, \* keys whose recall notice by the loop has failed
    renderFailed, \* keys whose conversion to images has failed in a unit
    cycleNew,     \* IsDocumentProcessed returned false in the current cycle
    handled,      \* per key, the units and notices of the current cycle
    shutdownChan, \* number of signals buffered in shutdownChan
    done,         \* number of values buffered in done
    pcMain,       \* position of the main goroutine
    signals,      \* shutdown signals delivered so far
    tCall,        \* a call of one of the poster's text functions
    tOut,         \* the text that call returns or submits
    tPc,          \* position of that call
    pImages,      \* number of images handed to Post
    pPc,          \* position of the Post call
    pUploaded,    \* indices of the images uploaded to Picsur, in order
    pText,        \* the post text formatPostText has built
    pContainers,  \* images whose media container was created, in order
    pPost,        \* the post created on Threads
    pReady,       \* media containers Threads has finished processing
    pErr,         \* error Post returns
    pShort,       \* what ShortenURL returned to formatPostText
    token,        \* bearer token the Threads client holds
    issued,       \* latest token Threads has issued
    refPc,        \* position of the token refresher goroutine
    usedToken,    \* token of the latest publish call
    schema,       \* table processed_documents as committed in the database
    tx,           \* the migration transaction of NewPostgres
    newPc,        \* position of NewPostgres
    newErr,       \* error NewPostgres returns
    initial       \* schema and rows NewPostgres was started against

loopVars == <<loopPc, loopG, docs, idx, processed, checkErr, loopFn, noticeOk, marked, markErr>>
poolVars == <<units, semaphore, wg>>
dbVars == <<dbUp, connOpen, budget>>
shutVars == <<shutdownChan, done, pcMain, signals>>
histVars == <<published, storeErr, dupListed, noticeFailed, renderFailed, cycleNew, handled>>
textVars == <<tCall, tOut, tPc>>
clientVars == <<token, issued, refPc>>
migVars == <<schema, tx, newPc, newErr, initial>>
posterVars == <<pImages, pPc, pUploaded, pText, pContainers, pPost, pReady, pErr, pShort>>
vars == <<store, dbVars, loopVars, poolVars, cyclesLeft, limit, page, textVars, posterVars, clientVars, migVars, usedToken, histVars, shutVars>>

GuardPhases == {"probe", "short", "shortPing", "long", "longPing"}

EmptyStore == EmptyBag

\* main before its loop, whatever the database holds
InitProcess ==
    /\ dbUp = TRUE
    /\ connOpen = TRUE
    /\ loopPc = "select"
    /\ loopG = "none"
    /\ docs = <<>>
    /\ idx = 0
    /\ processed = FALSE
    /\ checkErr = FALSE
    /\ loopFn = FALSE
    /\ noticeOk = FALSE
    /\ marked = 0
    /\ markErr = FALSE
    /\ units = EmptyBag
    /\ semaphore = 0
    /\ wg = 0
    /\ published = [k \in Keys |-> 0]
    /\ storeErr = FALSE
    /\ dupListed = FALSE
    /\ noticeFailed = {}
    /\ renderFailed = {}
    /\ cycleNew = FALSE
    /\ handled = [k \in Keys |-> 0]
    /\ token = 0
    /\ issued = 0
    /\ refPc = "delay"
    /\ usedToken = 0
    /\ shutdownChan = 0
    /\ done = 0
    /\ pcMain = "init"
    /\ signals = 0

NoTx == [open |-> FALSE, urlKey |-> FALSE, titleUrlKey |-> FALSE]

\* main after NewPostgres has returned a store on a new database
InitCommon ==
    /\ store = EmptyStore
    /\ schema = [table |-> TRUE, urlKey |-> FALSE, titleUrlKey |-> TRUE]
    /\ tx = NoTx
    /\ newPc = "returned"
    /\ newErr = "nil"
    /\ initial = [schema |-> [table |-> FALSE, urlKey |-> FALSE, titleUrlKey |-> FALSE],
                  rows |-> EmptyStore]
    /\ InitProcess


\* no call of a text function is modelled
TextIdle == tCall = NoCall /\ tOut = <<>> /\ tPc = "idle"

NoPost == [kind |-> "none", text |-> <<>>, image |-> 0, children |-> <<>>, ready |-> 0]

\* no call of Post is modelled
PosterIdle ==
    /\ pImages = 0
    /\ pPc = "idle"
    /\ pUploaded = <<>>
    /\ pText = <<>>
    /\ pContainers = <<>>
    /\ pPost = NoPost
    /\ pReady = 0
    /\ pErr = "none"
    /\ pShort = "none"

Init ==
    /\ InitCommon /\ TextIdle /\ PosterIdle
    /\ limit = MaxDocs /\ page = Documents /\ budget = MaxFaults /\ cyclesLeft = MaxCycles


(***************************************************************************)
(* PostgresStorage                                                         *)
(***************************************************************************)
\* a query or statement on s.db succeeds
StoreOk == connOpen /\ dbUp

\* SELECT EXISTS(SELECT 1 FROM processed_documents WHERE url = $1 AND title = $2)
RowExists(rows, title, url) ==
    \E r \in BagToSet(rows) : r.url = url /\ r.title = title

\* variant: the query of the first schema, WHERE url = $1
IsDocumentProcessedByUrl(rows, doc, ok) ==
    IF ~ok THEN FALSE ELSE \E r \in BagToSet(rows) : r.url = doc.url

\* PostgresStorage.IsDocumentProcessed: false when the query fails
IsDocumentProcessed(rows, doc, ok) ==
    IF ~ok THEN FALSE ELSE RowExists(rows, doc.title, doc.url)

\* variant: AddProcessedDocument without its existence check
AddCheckNoExistence(rows, rec, ok) ==
    IF ~ok THEN "error" ELSE "insert"

\* variant: AddProcessedDocument reports an existing row as an error
AddCheckErrorOnDuplicate(rows, rec, ok) ==
    IF ~ok THEN "error"
    ELSE IF RowExists(rows, rec.title, rec.url) THEN "error"
    ELSE "insert"

\* the existence check of AddProcessedDocument: "error", "exists" or "insert"
AddCheck(rows, rec, ok) ==
    IF ~ok THEN "error"
    ELSE IF RowExists(rows, rec.title, rec.url) THEN "exists"
    ELSE "insert"

\* variant: the table without its UNIQUE(title, url) constraint
NoUniqueConstraint(rows, rec) == FALSE

\* UNIQUE(title, url) of table processed_documents
UniqueViolation(rows, rec) ==
    \E r \in BagToSet(rows) : r.title = rec.title /\ r.url = rec.url

\* variant: the INSERT reports success but its row is never stored
InsertRowNotStored(rows, rec, ok) ==
    [rows |-> rows, err |-> ~ok]

\* the INSERT of AddProcessedDocument: the rows afterwards and the error flag
InsertRow(rows, rec, ok) ==
    IF ~ok \/ UniqueViolation(rows, rec)
    THEN [rows |-> rows, err |-> TRUE]
    ELSE [rows |-> rows (+) SetToBag({rec}), err |-> FALSE]

\* CheckConnection: Ping on the current handle
CheckConnection == connOpen /\ dbUp

(***************************************************************************)
(* waitForDBConnection, one step at a time.  Reconnect closes the current  *)
(* handle ("short", "long") and then pings a new one ("shortPing",         *)
(* "longPing"); s.db is replaced only when the ping succeeds.              *)
(***************************************************************************)
\* variant: the guard returns after its first reconnect attempt, failed or not
GuardReturnsAfterOneAttempt(g) ==
    \/ g = "probe" /\ CheckConnection
    \/ g = "shortPing"
    \/ g = "longPing" /\ dbUp

GuardReturns(g) ==
    \/ g = "probe" /\ CheckConnection
    \/ g \in {"shortPing", "longPing"} /\ dbUp

GuardPhase(g) ==
    CASE g = "probe" -> "short"
      [] g = "short" -> "shortPing"
      [] g = "shortPing" -> "long"
      [] g = "long" -> "longPing"
      [] g = "longPing" -> "long"

GuardConn(g) ==
    CASE g \in {"short", "long"} -> FALSE
      [] g \in {"shortPing", "longPing"} -> IF dbUp THEN TRUE ELSE connOpen
      [] OTHER -> connOpen

\* results of a call to an external service: it fails only while the run's
\* budget of failures lasts
Results == IF budget > 0 THEN {TRUE, FALSE} ELSE {TRUE}

Spend(ok) == IF ok THEN budget ELSE budget - 1

Inc(pub, k) == [pub EXCEPT ![k] = IF @ < MaxPub THEN @ + 1 ELSE @]

(***************************************************************************)
(* The processing loop goroutine of main()                                 *)
(***************************************************************************)
\* "continue" of the for-range over docs
NextDoc ==
    /\ idx' = idx + 1
    /\ IF idx + 1 > Len(docs)
       THEN loopPc' = "wait" /\ loopG' = "none"
       ELSE loopPc' = "guard" /\ loopG' = "probe"
    /\ processed' = FALSE
    /\ checkErr' = FALSE
    /\ loopFn' = FALSE
    /\ noticeOk' = FALSE
    /\ marked' = 0
    /\ markErr' = FALSE
    /\ docs' = docs

\* select on shutdownChan with a default branch, at the top of every cycle
LoopSelect ==
    /\ loopPc = "select"
    /\ IF shutdownChan > 0
       THEN /\ shutdownChan' = shutdownChan - 1
            /\ loopPc' = "stopped"
            /\ done' = done + 1
            /\ UNCHANGED <<loopG, cyclesLeft>>
       ELSE /\ cyclesLeft > 0
            /\ cyclesLeft' = cyclesLeft - 1
            /\ loopPc' = "guard"
            /\ loopG' = "probe"
            /\ UNCHANGED <<shutdownChan, done>>
    /\ UNCHANGED <<store, dbVars, docs, idx, processed, checkErr, loopFn, noticeOk,
                   marked, markErr, poolVars, limit, page, textVars, posterVars, clientVars, migVars, usedToken, histVars, pcMain, signals>>

\* waitForDBConnection called by the loop, before the fetch and before each check
LoopGuard ==
    /\ loopPc = "guard"
    /\ connOpen' = GuardConn(loopG)
    /\ IF GuardReturns(loopG)
       THEN /\ loopPc' = IF idx = 0 THEN "fetch" ELSE "isproc"
            /\ loopG' = "none"
       ELSE /\ loopPc' = "guard"
            /\ loopG' = GuardPhase(loopG)
    /\ UNCHANGED <<store, dbUp, budget, docs, idx, processed, checkErr, loopFn, noticeOk,
                   marked, markErr, poolVars, cyclesLeft, limit, page, textVars, posterVars, clientVars, migVars, usedToken, histVars, shutVars>>

\* what FetchLatestDocuments can return: a listing with at least one row, the
\* error for a page without rows, or the error of a failed visit
FetchResults ==
    {[err |-> FALSE, docs |-> l, cost |-> 0] : l \in Listings(page, limit) \ {<<>>}}
        \cup {[err |-> TRUE, docs |-> <<>>, cost |-> 0]}
        \cup {[err |-> TRUE, docs |-> <<>>, cost |-> 1] : ok \in Results \ {TRUE}}

\* variant: a listing error ends the loop
LoopFetchFatal ==
    /\ loopPc = "fetch"
    /\ \E r \in FetchResults :
        /\ budget' = budget - r.cost
        /\ cycleNew' = FALSE
        /\ handled' = [k \in Keys |-> 0]
        /\ IF r.err \/ Len(r.docs) = 0
           THEN /\ loopPc' = "stopped"
                /\ loopG' = "none"
                /\ UNCHANGED <<docs, idx, dupListed>>
           ELSE /\ docs' = r.docs
                /\ idx' = 1
                /\ loopPc' = "guard"
                /\ loopG' = "probe"
                /\ dupListed' = (dupListed \/ HasDuplicateKey(r.docs))
    /\ UNCHANGED <<store, dbUp, connOpen, processed, checkErr, loopFn, noticeOk, marked,
                   markErr, poolVars, cyclesLeft, limit, page, textVars, posterVars, clientVars, migVars, usedToken, published, storeErr, noticeFailed, renderFailed, shutVars>>

\* FetchLatestDocuments; an error or an empty listing lead to the sleep
LoopFetch ==
    /\ loopPc = "fetch"
    /\ \E r \in FetchResults :
        /\ budget' = budget - r.cost
        /\ cycleNew' = FALSE
        /\ handled' = [k \in Keys |-> 0]
        /\ IF r.err \/ Len(r.docs) = 0
           THEN /\ loopPc' = "sleep"
                /\ loopG' = "none"
                /\ UNCHANGED <<docs, idx, dupListed>>
           ELSE /\ docs' = r.docs
                /\ idx' = 1
                /\ loopPc' = "guard"
                /\ loopG' = "probe"
                /\ dupListed' = (dupListed \/ HasDuplicateKey(r.docs))
    /\ UNCHANGED <<store, dbUp, connOpen, processed, checkErr, loopFn, noticeOk, marked,
                   markErr, poolVars, cyclesLeft, limit, page, textVars, posterVars, clientVars, migVars, usedToken, published, storeErr, noticeFailed, renderFailed, shutVars>>

\* store.IsDocumentProcessed(cycleCtx, doc)
LoopIsProcessed ==
    /\ loopPc = "isproc"
    /\ processed' = IsDocumentProcessed(store, docs[idx], StoreOk)
    /\ checkErr' = ~StoreOk
    /\ loopFn' = (~StoreOk /\ RowExists(store, docs[idx].title, docs[idx].url))
    /\ storeErr' = (storeErr \/ ~StoreOk)
    /\ cycleNew' = (cycleNew \/ ~IsDocumentProcessed(store, docs[idx], StoreOk))
    /\ loopPc' = "branch"
    /\ UNCHANGED <<store, dbVars, loopG, docs, idx, noticeOk, marked, markErr, poolVars,
                   cyclesLeft, limit, page, textVars, posterVars, clientVars, migVars, usedToken, published, dupListed, noticeFailed, renderFailed, handled, shutVars>>

\* variant: the continue for a processed document is missing
LoopBranchNoSkip ==
    /\ loopPc = "branch"
    /\ loopPc' = IF IsRecalledDocument(docs[idx]) THEN "notice" ELSE "acquire"
    /\ UNCHANGED <<loopG, docs, idx, processed, checkErr, loopFn, noticeOk, marked, markErr>>
    /\ UNCHANGED <<store, dbVars, poolVars, cyclesLeft, limit, page, textVars, posterVars, clientVars, migVars, usedToken, histVars, shutVars>>

\* skip a processed document, else take the recalled path or go on to dispatch
LoopBranch ==
    /\ loopPc = "branch"
    /\ IF processed
       THEN NextDoc
       ELSE /\ loopPc' = IF IsRecalledDocument(docs[idx]) THEN "notice" ELSE "acquire"
            /\ UNCHANGED <<loopG, docs, idx, processed, checkErr, loopFn, noticeOk,
                           marked, markErr>>
    /\ UNCHANGED <<store, dbVars, poolVars, cyclesLeft, limit, page, textVars, posterVars, clientVars, migVars, usedToken, histVars, shutVars>>

\* variant: the loop marks the document whether or not the notice was posted
LoopNoticeAlwaysMark ==
    /\ loopPc = "notice"
    /\ usedToken' = token
    /\ handled' = Inc(handled, KeyOf(docs[idx]))
    /\ \E ok \in Results :
        /\ budget' = Spend(ok)
        /\ published' = IF ok THEN Inc(published, KeyOf(docs[idx])) ELSE published
        /\ noticeOk' = ok
        /\ noticeFailed' = IF ok THEN noticeFailed ELSE noticeFailed \cup {KeyOf(docs[idx])}
        /\ loopPc' = "mark"
        /\ UNCHANGED <<loopG, docs, idx, processed, checkErr, loopFn, marked, markErr>>
    /\ UNCHANGED <<store, dbUp, connOpen, poolVars, cyclesLeft, limit, page, textVars, posterVars, clientVars, migVars, storeErr, dupListed,
                   renderFailed, cycleNew, shutVars>>

\* postRecalledDocumentNotice by the loop; on failure the document is not marked
LoopNotice ==
    /\ loopPc = "notice"
    /\ usedToken' = token
    /\ handled' = Inc(handled, KeyOf(docs[idx]))
    /\ \E ok \in Results :
        /\ budget' = Spend(ok)
        /\ IF ok
           THEN /\ published' = Inc(published, KeyOf(docs[idx]))
                /\ noticeOk' = TRUE
                /\ loopPc' = "mark"
                /\ UNCHANGED <<loopG, docs, idx, processed, checkErr, loopFn, marked, markErr,
                               noticeFailed>>
           ELSE /\ NextDoc
                /\ noticeFailed' = noticeFailed \cup {KeyOf(docs[idx])}
                /\ UNCHANGED published
    /\ UNCHANGED <<store, dbUp, connOpen, poolVars, cyclesLeft, limit, page, textVars, posterVars, clientVars, migVars, storeErr, dupListed,
                   renderFailed, cycleNew, shutVars>>

\* AddProcessedDocument called by the loop: the existence check
LoopMark ==
    /\ loopPc = "mark"
    /\ marked' = marked + 1
    /\ LET c == AddCheck(store, ProcessedDocument(docs[idx]), StoreOk) IN
        /\ loopPc' = IF c = "insert" THEN "insert" ELSE "markDone"
        /\ markErr' = (c = "error")
        /\ storeErr' = (storeErr \/ c = "error")
    /\ UNCHANGED <<store, dbVars, loopG, docs, idx, processed, checkErr, loopFn, noticeOk,
                   poolVars, cyclesLeft, limit, page, textVars, posterVars, clientVars, migVars, usedToken, published, dupListed, noticeFailed, renderFailed, cycleNew, handled, shutVars>>

\* AddProcessedDocument called by the loop: the INSERT
LoopInsert ==
    /\ loopPc = "insert"
    /\ LET r == InsertRow(store, ProcessedDocument(docs[idx]), StoreOk) IN
        /\ store' = r.rows
        /\ markErr' = r.err
        /\ storeErr' = (storeErr \/ r.err)
    /\ loopPc' = "markDone"
    /\ UNCHANGED <<dbVars, loopG, docs, idx, processed, checkErr, loopFn, noticeOk, marked,
                   poolVars, cyclesLeft, limit, page, textVars, posterVars, clientVars, migVars, usedToken, published, dupListed, noticeFailed, renderFailed, cycleNew, handled, shutVars>>

\* an error of AddProcessedDocument is logged; the loop continues with the next document
LoopMarkDone ==
    /\ loopPc = "markDone"
    /\ NextDoc
    /\ UNCHANGED <<store, dbVars, poolVars, cyclesLeft, limit, page, textVars, posterVars, clientVars, migVars, usedToken, histVars, shutVars>>

\* a new worker goroutine, about to run processDocument
NewUnit(doc) ==
    [doc |-> doc, pc |-> "prepare", g |-> "none", posted |-> FALSE, failed |-> "none",
     markErr |-> FALSE, fn |-> loopFn, cy |-> cyclesLeft, summary |-> "none",
     dl |-> "none", dir |-> "none"]

\* variant: the semaphore channel made one slot too large
SlotFreeOffByOne == semaphore <= maxConcurrentProcessing

\* the send on the semaphore channel goes through: its buffer is not full
SlotFree == semaphore < maxConcurrentProcessing

\* variant: the goroutine reads the loop variable instead of its argument
\* and may find a later row of the listing in it
LoopDispatchCapturesLoopVariable ==
    /\ loopPc = "acquire"
    /\ SlotFree
    /\ semaphore' = semaphore + 1
    /\ wg' = wg + 1
    /\ \E j \in idx..Len(docs) :
        /\ units' = units (+) SetToBag({NewUnit(docs[j])})
        /\ handled' = Inc(handled, KeyOf(docs[j]))
    /\ NextDoc
    /\ UNCHANGED <<store, dbVars, cyclesLeft, limit, page, textVars, posterVars, clientVars, migVars, usedToken, published, storeErr, dupListed, noticeFailed,
                   renderFailed, cycleNew, shutVars>>

\* semaphore <- struct{}{}; wg.Add(1); go func(document)
LoopDispatch ==
    /\ loopPc = "acquire"
    /\ SlotFree
    /\ semaphore' = semaphore + 1
    /\ wg' = wg + 1
    /\ units' = units (+) SetToBag({NewUnit(docs[idx])})
    /\ handled' = Inc(handled, KeyOf(docs[idx]))
    /\ NextDoc
    /\ UNCHANGED <<store, dbVars, cyclesLeft, limit, page, textVars, posterVars, clientVars, migVars, usedToken, published, storeErr, dupListed, noticeFailed,
                   renderFailed, cycleNew, shutVars>>

\* variant: the loop does not wait for its workers
WaitReturnsAtOnce == TRUE

\* wg.Wait() returns: the counter is zero
WaitReturns == wg = 0

\* wg.Wait() before the sleep
LoopWait ==
    /\ loopPc = "wait"
    /\ WaitReturns
    /\ loopPc' = "sleep"
    /\ UNCHANGED <<store, dbVars, loopG, docs, idx, processed, checkErr, loopFn, noticeOk,
                   marked, markErr, poolVars, cyclesLeft, limit, page, textVars, posterVars, clientVars, migVars, usedToken, histVars, shutVars>>

\* time.Sleep(cfg.ScrapeInterval), then the next iteration
LoopSleep ==
    /\ loopPc = "sleep"
    /\ loopPc' = "select"
    /\ docs' = <<>>
    /\ idx' = 0
    /\ UNCHANGED <<store, dbVars, loopG, processed, checkErr, loopFn, noticeOk, marked,
                   markErr, poolVars, cyclesLeft, limit, page, textVars, posterVars, clientVars, migVars, usedToken, histVars, shutVars>>

(***************************************************************************)
(* Worker goroutines: processDocument                                      *)
(***************************************************************************)
Replace(u, v) == (units (-) SetToBag({u})) (+) SetToBag({v})

\* "invalid": verifyPDF rejected the file and the file was removed;
\* "removeError": verifyPDF rejected the file and os.Remove failed;
\* "error": the request, the status code or the file write failed
DownloadResults == {"ok", "invalid", "removeError", "error"}

\* scraper.DownloadDocument: the recall check on the title comes first
DownloadDocument(doc, result) ==
    IF IsRecalledDocument(doc) THEN "recalled" ELSE result

\* the error of DownloadDocument carries one of the two recall texts
IsRecallError(r) == r \in {"recalled", "invalid"}

\* processDocument up to the publish call: MkdirAll, DownloadDocument,
\* GenerateSummary and ConvertToImages, which touch nothing shared.  mk, sm, rn
\* tell whether the call succeeds, dl is the result of the download.  Gives the
\* next position of the unit, the call that ended it and the failures spent.
PrepareAbortsOnSummaryError(doc, mk, dl, sm, rn) ==
    LET r == DownloadDocument(doc, dl)
        aiSummary == IF sm THEN "text" ELSE "empty" IN
    IF ~mk THEN [pc |-> "release", failed |-> "mkdir", dl |-> "none", summary |-> "none", cost |-> 1]
    ELSE IF IsRecallError(r)
        THEN [pc |-> "notice", failed |-> "none", dl |-> r, summary |-> "none",
              cost |-> IF r = "recalled" THEN 0 ELSE 1]
    ELSE IF r # "ok"
        THEN [pc |-> "release", failed |-> "download", dl |-> r, summary |-> "none", cost |-> 1]
    ELSE IF ~sm
        THEN [pc |-> "release", failed |-> "summary", dl |-> r, summary |-> aiSummary, cost |-> 1]
    ELSE IF ~rn
        THEN [pc |-> "release", failed |-> "render", dl |-> r, summary |-> aiSummary, cost |-> 1]
    ELSE [pc |-> "post", failed |-> "none", dl |-> r, summary |-> aiSummary, cost |-> 0]

PrepareIgnoresRenderError(doc, mk, dl, sm, rn) ==
    LET r == DownloadDocument(doc, dl)
        aiSummary == IF sm THEN "text" ELSE "empty" IN
    IF ~mk THEN [pc |-> "release", failed |-> "mkdir", dl |-> "none", summary |-> "none", cost |-> 1]
    ELSE IF IsRecallError(r)
        THEN [pc |-> "notice", failed |-> "none", dl |-> r, summary |-> "none",
              cost |-> IF r = "recalled" THEN 0 ELSE 1]
    ELSE IF r # "ok"
        THEN [pc |-> "release", failed |-> "download", dl |-> r, summary |-> "none", cost |-> 1]
    ELSE IF ~rn
        THEN [pc |-> "post", failed |-> "render", dl |-> r, summary |-> aiSummary,
              cost |-> IF sm THEN 1 ELSE 2]
    ELSE [pc |-> "post", failed |-> "none", dl |-> r, summary |-> aiSummary, cost |-> IF sm THEN 0 ELSE 1]

Prepare(doc, mk, dl, sm, rn) ==
    LET r == DownloadDocument(doc, dl)
        aiSummary == IF sm THEN "text" ELSE "empty" IN
    IF ~mk THEN [pc |-> "release", failed |-> "mkdir", dl |-> "none", summary |-> "none", cost |-> 1]
    ELSE IF IsRecallError(r)
        THEN [pc |-> "notice", failed |-> "none", dl |-> r, summary |-> "none",
              cost |-> IF r = "recalled" THEN 0 ELSE 1]
    ELSE IF r # "ok"
        THEN [pc |-> "release", failed |-> "download", dl |-> r, summary |-> "none", cost |-> 1]
    ELSE IF ~rn
        THEN [pc |-> "release", failed |-> "render", dl |-> r, summary |-> aiSummary,
              cost |-> IF sm THEN 1 ELSE 2]
    ELSE [pc |-> "post", failed |-> "none", dl |-> r, summary |-> aiSummary, cost |-> IF sm THEN 0 ELSE 1]

UnitPrepare(u) ==
    /\ u.pc = "prepare"
    /\ \E mk \in Results, dl \in DownloadResults, sm \in Results, rn \in Results :
        LET p == Prepare(u.doc, mk, dl, sm, rn) IN
        /\ p.cost <= budget
        /\ budget' = budget - p.cost
        /\ units' = Replace(u, [u EXCEPT !.pc = p.pc, !.failed = p.failed,
                                         !.summary = p.summary, !.dl = p.dl,
                                         !.dir = IF p.failed = "mkdir" THEN "none"
                                                 ELSE "present"])
        /\ renderFailed' = IF p.failed = "render"
                           THEN renderFailed \cup {KeyOf(u.doc)}
                           ELSE renderFailed
    /\ UNCHANGED <<store, dbUp, connOpen, loopVars, semaphore, wg, cyclesLeft, limit, page,
                   textVars, posterVars, clientVars, migVars, usedToken, published, storeErr, dupListed, noticeFailed, cycleNew, handled,
                   shutVars>>

\* postRecalledDocumentNotice by the unit (recall detected at download)
UnitNotice(u) ==
    /\ u.pc = "notice"
    /\ usedToken' = token
    /\ \E ok \in Results :
        /\ budget' = Spend(ok)
        /\ IF ok
           THEN /\ units' = Replace(u, [u EXCEPT !.pc = "guard", !.g = "probe",
                                                 !.posted = TRUE])
                /\ published' = Inc(published, KeyOf(u.doc))
           ELSE /\ units' = Replace(u, [u EXCEPT !.pc = "release", !.failed = "notice"])
                /\ UNCHANGED published
    /\ UNCHANGED <<store, dbUp, connOpen, loopVars, semaphore, wg, cyclesLeft, limit, page, textVars, posterVars, clientVars, migVars, storeErr,
                   dupListed, noticeFailed, renderFailed, cycleNew, handled, shutVars>>

\* variant: the return after a failed poster.Post is missing
UnitPostNoReturn(u) ==
    /\ u.pc = "post"
    /\ usedToken' = token
    /\ \E ok \in Results :
        /\ budget' = Spend(ok)
        /\ units' = Replace(u, [u EXCEPT !.pc = "guard", !.g = "probe", !.posted = ok])
        /\ published' = IF ok THEN Inc(published, KeyOf(u.doc)) ELSE published
    /\ UNCHANGED <<store, dbUp, connOpen, loopVars, semaphore, wg, cyclesLeft, limit, page, textVars, posterVars, clientVars, migVars, storeErr,
                   dupListed, noticeFailed, renderFailed, cycleNew, handled, shutVars>>

\* variant: after a failed poster.Post the goroutine never returns
UnitPostHangsOnError(u) ==
    /\ u.pc = "post"
    /\ usedToken' = token
    /\ \E ok \in Results :
        /\ budget' = Spend(ok)
        /\ IF ok
           THEN /\ units' = Replace(u, [u EXCEPT !.pc = "guard", !.g = "probe",
                                                 !.posted = TRUE])
                /\ published' = Inc(published, KeyOf(u.doc))
           ELSE /\ units' = Replace(u, [u EXCEPT !.pc = "halted", !.failed = "post"])
                /\ UNCHANGED published
    /\ UNCHANGED <<store, dbUp, connOpen, loopVars, semaphore, wg, cyclesLeft, limit, page, textVars, posterVars, clientVars, migVars, storeErr,
                   dupListed, noticeFailed, renderFailed, cycleNew, handled, shutVars>>

\* poster.Post: a failure ends the unit
UnitPost(u) ==
    /\ u.pc = "post"
    /\ usedToken' = token
    /\ \E ok \in Results :
        /\ budget' = Spend(ok)
        /\ IF ok
           THEN /\ units' = Replace(u, [u EXCEPT !.pc = "guard", !.g = "probe",
                                                 !.posted = TRUE])
                /\ published' = Inc(published, KeyOf(u.doc))
           ELSE /\ units' = Replace(u, [u EXCEPT !.pc = "release", !.failed = "post"])
                /\ UNCHANGED published
    /\ UNCHANGED <<store, dbUp, connOpen, loopVars, semaphore, wg, cyclesLeft, limit, page, textVars, posterVars, clientVars, migVars, storeErr,
                   dupListed, noticeFailed, renderFailed, cycleNew, handled, shutVars>>

\* waitForDBConnection called by the unit before AddProcessedDocument
UnitGuard(u) ==
    /\ u.pc = "guard"
    /\ connOpen' = GuardConn(u.g)
    /\ units' = Replace(u, IF GuardReturns(u.g)
                           THEN [u EXCEPT !.pc = "check", !.g = "none"]
                           ELSE [u EXCEPT !.g = GuardPhase(u.g)])
    /\ UNCHANGED <<store, dbUp, budget, loopVars, semaphore, wg, cyclesLeft, limit, page, textVars, posterVars, clientVars, migVars, usedToken, histVars,
                   shutVars>>

\* AddProcessedDocument called by the unit: the existence check
UnitCheck(u) ==
    /\ u.pc = "check"
    /\ LET c == AddCheck(store, ProcessedDocument(u.doc), StoreOk) IN
        /\ units' = Replace(u, [u EXCEPT !.pc = IF c = "insert" THEN "insert" ELSE "release",
                                          !.markErr = (c = "error")])
        /\ storeErr' = (storeErr \/ c = "error")
    /\ UNCHANGED <<store, dbVars, loopVars, semaphore, wg, cyclesLeft, limit, page, textVars, posterVars, clientVars, migVars, usedToken, published, dupListed,
                   noticeFailed, renderFailed, cycleNew, handled, shutVars>>

\* AddProcessedDocument called by the unit: the INSERT; an error is logged
UnitInsert(u) ==
    /\ u.pc = "insert"
    /\ LET r == InsertRow(store, ProcessedDocument(u.doc), StoreOk) IN
        /\ store' = r.rows
        /\ storeErr' = (storeErr \/ r.err)
        /\ units' = Replace(u, [u EXCEPT !.pc = "release", !.markErr = r.err])
    /\ UNCHANGED <<dbVars, loopVars, semaphore, wg, cyclesLeft, limit, page, textVars, posterVars, clientVars, migVars, usedToken, published, dupListed,
                   noticeFailed, renderFailed, cycleNew, handled, shutVars>>

\* variant: the directory is removed only at the end of the success path
UnitReleaseCleansOnSuccessOnly(u) ==
    /\ u.pc = "release"
    /\ semaphore' = semaphore - 1
    /\ \E removed \in (IF u.dir = "present" /\ u.failed = "none" THEN Results ELSE {TRUE}) :
        /\ budget' = Spend(removed)
        /\ units' = Replace(u, [u EXCEPT !.pc = "wgdone",
                                         !.dir = IF u.dir = "present" /\ u.failed = "none"
                                                 THEN IF removed THEN "removed" ELSE "left"
                                                 ELSE u.dir])
    /\ UNCHANGED <<store, dbUp, connOpen, loopVars, wg, cyclesLeft, limit, page, textVars, posterVars, clientVars, migVars, usedToken, histVars, shutVars>>

\* the return of processDocument and of the goroutine up to wg.Done: the
\* deferred os.RemoveAll(docDir), whose error is logged, when the directory
\* was created (a failed removal is one of the run's failures); then the
\* deferred func() { <-semaphore }()
UnitRelease(u) ==
    /\ u.pc = "release"
    /\ semaphore' = semaphore - 1
    /\ \E removed \in (IF u.dir = "present" THEN Results ELSE {TRUE}) :
        /\ budget' = Spend(removed)
        /\ units' = Replace(u, [u EXCEPT !.pc = "wgdone",
                                         !.dir = IF u.dir = "present"
                                                 THEN IF removed THEN "removed" ELSE "left"
                                                 ELSE u.dir])
    /\ UNCHANGED <<store, dbUp, connOpen, loopVars, wg, cyclesLeft, limit, page, textVars, posterVars, clientVars, migVars, usedToken, histVars, shutVars>>

\* deferred wg.Done(); the goroutine ends
UnitDone(u) ==
    /\ u.pc = "wgdone"
    /\ wg' = wg - 1
    /\ units' = units (-) SetToBag({u})
    /\ UNCHANGED <<store, dbVars, loopVars, semaphore, cyclesLeft, limit, page, textVars, posterVars, clientVars, migVars, usedToken, histVars, shutVars>>

\* the process runs until main returns
Alive == pcMain # "exited"

(***************************************************************************)
(* The database server, followed while the process runs                    *)
(***************************************************************************)
DbDown ==
    /\ Alive
    /\ dbUp
    /\ budget > 0
    /\ dbUp' = FALSE
    /\ budget' = budget - 1
    /\ UNCHANGED <<store, connOpen, loopVars, poolVars, cyclesLeft, limit, page, textVars, posterVars, clientVars, migVars, usedToken, histVars, shutVars>>

DbRecover ==
    /\ Alive
    /\ ~dbUp
    /\ dbUp' = TRUE
    /\ UNCHANGED <<store, connOpen, budget, loopVars, poolVars, cyclesLeft, limit, page, textVars, posterVars, clientVars, migVars, usedToken, histVars,
                   shutVars>>

(***************************************************************************)
(* Shutdown: the main goroutine and the signal                             *)
(***************************************************************************)
\* a signal arrives: signal.Notify sends without blocking; a receiver that
\* is parked on the channel gets the value directly
Signal ==
    /\ Alive
    /\ signals < MaxSignals
    /\ signals' = signals + 1
    /\ IF pcMain = "parked"
       THEN pcMain' = "draining" /\ UNCHANGED shutdownChan
       ELSE /\ shutdownChan' = IF shutdownChan < 1 THEN shutdownChan + 1 ELSE shutdownChan
            /\ UNCHANGED pcMain
    /\ UNCHANGED <<store, dbVars, loopVars, poolVars, cyclesLeft, limit, page, textVars, posterVars, clientVars, migVars, usedToken, histVars, done>>

\* sig := <-shutdownChan
MainWait ==
    /\ pcMain = "init"
    /\ IF shutdownChan > 0
       THEN pcMain' = "draining" /\ shutdownChan' = shutdownChan - 1
       ELSE pcMain' = "parked" /\ UNCHANGED shutdownChan
    /\ UNCHANGED <<store, dbVars, loopVars, poolVars, cyclesLeft, limit, page, textVars, posterVars, clientVars, migVars, usedToken, histVars, done, signals>>

\* main returns: the process ends and its goroutines, channels and database
\* handle go with it; the table and what was published stay
Exit ==
    /\ pcMain' = "exited"
    /\ loopPc' = "stopped"
    /\ loopG' = "none"
    /\ docs' = <<>>
    /\ idx' = 0
    /\ processed' = FALSE
    /\ checkErr' = FALSE
    /\ loopFn' = FALSE
    /\ noticeOk' = FALSE
    /\ marked' = 0
    /\ markErr' = FALSE
    /\ units' = EmptyBag
    /\ semaphore' = 0
    /\ wg' = 0
    /\ connOpen' = FALSE
    /\ shutdownChan' = 0
    /\ done' = 0
    /\ UNCHANGED <<store, dbUp, budget, cyclesLeft, limit, page, textVars, posterVars, clientVars, migVars, usedToken, histVars, signals>>

\* case <-done: the loop has stopped
MainDone ==
    /\ pcMain = "draining"
    /\ done > 0
    /\ Exit

\* case <-time.After(30 * time.Second)
MainTimeout ==
    /\ pcMain = "draining"
    /\ Exit

Loop ==
    \/ LoopSelect
    \/ LoopGuard
    \/ LoopFetch
    \/ LoopIsProcessed
    \/ LoopBranch
    \/ LoopNotice
    \/ LoopMark
    \/ LoopInsert
    \/ LoopMarkDone
    \/ LoopDispatch
    \/ LoopWait
    \/ LoopSleep

\* a step of one of the worker goroutines
Prepares == \E u \in BagToSet(units) : UnitPrepare(u)
Notices == \E u \in BagToSet(units) : UnitNotice(u)
Posts == \E u \in BagToSet(units) : UnitPost(u)
Guards == \E u \in BagToSet(units) : UnitGuard(u)
Checks == \E u \in BagToSet(units) : UnitCheck(u)
Inserts == \E u \in BagToSet(units) : UnitInsert(u)
Releases == \E u \in BagToSet(units) : UnitRelease(u)
Dones == \E u \in BagToSet(units) : UnitDone(u)

Units ==
    \/ Prepares
    \/ Notices
    \/ Posts
    \/ Guards
    \/ Checks
    \/ Inserts
    \/ Releases
    \/ Dones

Main == MainWait \/ MainDone \/ MainTimeout

Next ==
    \/ Loop
    \/ Units
    \/ Main
    \/ DbDown
    \/ DbRecover
    \/ Signal

Spec == Init /\ [][Next]_vars

\* The shutdown handshake on a small run: one row, one cycle.  Every step of
\* the program is taken eventually; signals and database outages need not come.
InitShutdown == InitCommon /\ TextIdle /\ PosterIdle /\ limit = 1 /\ page = Documents /\ budget = MaxFaults /\ cyclesLeft = 1

Fairness == WF_vars(Loop) /\ WF_vars(Units) /\ WF_vars(Main) /\ WF_vars(DbRecover)

SpecShutdown == InitShutdown /\ [][Next]_vars /\ Fairness

\* One cycle over a page of up to MaxDocs rows, every step of the program
\* taken eventually and every outage of the database ended eventually
InitCycle == InitCommon /\ TextIdle /\ PosterIdle /\ limit = MaxDocs /\ page = Documents /\ budget = MaxFaults /\ cyclesLeft = 1

SpecCycle == InitCycle /\ [][Next]_vars /\ Fairness

\* The pool under load: a page of up to PoolDocs rows of regular documents, one
\* cycle, no failing service and no shutdown signal
InitPool ==
    InitCommon /\ TextIdle /\ PosterIdle /\ limit = PoolDocs /\ page = {DocA, DocB} /\ budget = 0 /\ cyclesLeft = 1

NextPool ==
    \/ LoopSelect
    \/ LoopGuard
    \/ LoopFetch
    \/ LoopIsProcessed
    \/ LoopBranch
    \/ LoopDispatch
    \/ LoopWait
    \/ LoopSleep
    \/ Prepares
    \/ Posts
    \/ Guards
    \/ Checks
    \/ Inserts
    \/ Releases
    \/ Dones

SpecPool == InitPool /\ [][NextPool]_vars

\* The pool on a page that shows each of its documents once: the listing is the
\* page, most recent first, cut to the limit.  No call fails, and a goroutine
\* that can take a step is not held back forever.
LoopFetchPage ==
    /\ LoopFetch
    /\ loopPc' = "guard"
    /\ ~HasDuplicateKey(docs')
    /\ Len(docs') = IF limit < Cardinality(page) THEN limit ELSE Cardinality(page)

InitProgress ==
    InitCommon /\ TextIdle /\ PosterIdle /\ limit = PoolDocs /\ page = PoolPage /\ budget = 0 /\ cyclesLeft = 1

NextProgress ==
    \/ LoopGuard
    \/ LoopIsProcessed
    \/ LoopBranch
    \/ LoopDispatch
    \/ LoopWait
    \/ LoopSleep
    \/ LoopSelect
    \/ Dones
    \/ Releases
    \/ Inserts
    \/ Checks
    \/ Guards
    \/ Posts
    \/ Prepares
    \/ LoopFetchPage

SpecProgress == InitProgress /\ [][NextProgress]_vars /\ WF_vars(NextProgress)

(***************************************************************************)
(* The text functions on their own: one call, its arguments drawn from the *)
(* bounded inputs, the rest of the program at rest.                        *)
(***************************************************************************)
mainVars ==
    <<store, dbVars, loopVars, poolVars, cyclesLeft, limit, page, clientVars, migVars, usedToken, histVars,
      shutVars>>

InitRest ==
    InitCommon /\ limit = MaxDocs /\ page = Documents /\ budget = MaxFaults /\ cyclesLeft = MaxCycles

InitText == InitRest /\ PosterIdle /\ tCall \in TextCalls(Texts) /\ tOut = <<>> /\ tPc = "call"

ApplyTruncateText ==
    /\ tPc = "call" /\ tCall.fn = "truncateText"
    /\ tOut' = truncateText(tCall.text, tCall.lim)
    /\ tPc' = "done"
    /\ UNCHANGED <<tCall, mainVars, posterVars>>

ApplyFormatPostText ==
    /\ tPc = "call" /\ tCall.fn = "formatPostText"
    /\ tOut' = formatPostText(tCall.title, tCall.time, tCall.short, tCall.text)
    /\ tPc' = "done"
    /\ UNCHANGED <<tCall, mainVars, posterVars>>

\* PostTextOnly up to its call of CreateTextPost; tOut is the text it submits
ApplyPostTextOnly ==
    /\ tPc = "call" /\ tCall.fn = "PostTextOnly"
    /\ tOut' = PostTextOnlyText(tCall.text)
    /\ tPc' = "done"
    /\ UNCHANGED <<tCall, mainVars, posterVars>>

\* IsRecalledDocument on a document with the drawn title; tOut is its result
ApplyIsRecalledDocument ==
    /\ tPc = "call" /\ tCall.fn = "IsRecalledDocument"
    /\ tOut' = IsRecalledDocument([title |-> tCall.title, url |-> "u1", published |-> 1])
    /\ tPc' = "done"
    /\ UNCHANGED <<tCall, mainVars, posterVars>>

NextText ==
    \/ ApplyIsRecalledDocument
    \/ ApplyTruncateText
    \/ ApplyFormatPostText
    \/ ApplyPostTextOnly

SpecText == InitText /\ [][NextText]_vars


(***************************************************************************)
(* Post on its own: one call with pImages rendered images, numbered from 1 *)
(* in page order.  Every call of Picsur, the shortener and Threads may     *)
(* fail; Threads finishes processing the media containers in its own time. *)
(***************************************************************************)
InitPoster ==
    /\ InitRest /\ TextIdle
    /\ pImages \in 0..MaxImages
    /\ pPc = "start"
    /\ pUploaded = <<>> /\ pText = <<>> /\ pContainers = <<>>
    /\ pPost = NoPost /\ pReady = 0 /\ pErr = "none" /\ pShort = "none"

CappedNoLimit(n) == n

\* len(images) after the cap
Capped(n) == IF n > imageLimit THEN imageLimit ELSE n

FlowZeroAsCarousel(n) ==
    IF n = 1 THEN "single" ELSE IF n <= imageLimit THEN "container" ELSE "invalid"

\* the branch Post takes for n uploaded images
Flow(n) ==
    IF n = 1 THEN "single" ELSE IF n >= 2 /\ n <= imageLimit THEN "container" ELSE "invalid"

PostFail(e) == pPc' = "done" /\ pErr' = e

\* Post up to the first upload
PostStart ==
    /\ pPc = "start"
    /\ pPc' = "upload"
    /\ UNCHANGED <<pImages, pShort, pUploaded, pText, pContainers, pPost, pReady, pErr, mainVars, textVars>>

\* variant: a failed upload is recorded and the loop goes on
PostUploadKeepsGoing ==
    /\ pPc = "upload" /\ Len(pUploaded) < Capped(pImages)
    /\ \E ok \in BOOLEAN :
          IF ok
          THEN pUploaded' = Append(pUploaded, Len(pUploaded) + 1) /\ UNCHANGED <<pPc, pErr>>
          ELSE pErr' = "upload" /\ UNCHANGED <<pPc, pUploaded>>
    /\ UNCHANGED <<pImages, pShort, pText, pContainers, pPost, pReady, mainVars, textVars>>

\* uploadImages: one pass of its loop
PostUpload ==
    /\ pPc = "upload" /\ Len(pUploaded) < Capped(pImages)
    /\ \E ok \in BOOLEAN :
          IF ok
          THEN pUploaded' = Append(pUploaded, Len(pUploaded) + 1) /\ UNCHANGED <<pPc, pErr>>
          ELSE PostFail("upload") /\ UNCHANGED pUploaded
    /\ UNCHANGED <<pImages, pShort, pText, pContainers, pPost, pReady, mainVars, textVars>>

\* ShortenURL: the short URL of the response, which may be empty, or "" with
\* an error; "skipped" when the document URL is empty and no call is made
ShortenURL(result) == IF result = "ok" THEN ShortURL ELSE <<>>

\* variant: an error of ShortenURL is returned by Post
PostFormatAbortsOnShortenError ==
    /\ pPc = "upload" /\ Len(pUploaded) = Capped(pImages)
    /\ \E result \in {"ok", "empty", "error", "skipped"} :
          /\ pShort' = result
          /\ IF result = "error"
             THEN PostFail("shorten") /\ UNCHANGED pText
             ELSE /\ pText' = formatPostText(TitleDoc, TimeUTC, ShortenURL(result), <<"a">>)
                  /\ IF Flow(Len(pUploaded)) = "invalid"
                     THEN PostFail("count")
                     ELSE pPc' = Flow(Len(pUploaded)) /\ UNCHANGED pErr
    /\ UNCHANGED <<pImages, pUploaded, pContainers, pPost, pReady, mainVars, textVars>>

\* Post from the return of uploadImages to the branch on the image count:
\* formatPostText with its call of ShortenURL, whose error is only logged
PostFormat ==
    /\ pPc = "upload" /\ Len(pUploaded) = Capped(pImages)
    /\ \E result \in {"ok", "empty", "error", "skipped"} :
          /\ pShort' = result
          /\ pText' = formatPostText(TitleDoc, TimeUTC, ShortenURL(result), <<"a">>)
    /\ IF Flow(Len(pUploaded)) = "invalid"
       THEN PostFail("count")
       ELSE pPc' = Flow(Len(pUploaded)) /\ UNCHANGED pErr
    /\ UNCHANGED <<pImages, pUploaded, pContainers, pPost, pReady, mainVars, textVars>>

PostSingleImage ==
    /\ pPc = "single"
    /\ \E ok \in BOOLEAN :
          IF ok
          THEN /\ pPost' = [NoPost EXCEPT !.kind = "single", !.text = pText, !.image = pUploaded[1]]
               /\ pPc' = "done" /\ UNCHANGED pErr
          ELSE PostFail("single") /\ UNCHANGED pPost
    /\ UNCHANGED <<pImages, pShort, pUploaded, pText, pContainers, pReady, mainVars, textVars>>

\* postCarousel: one pass of its loop
PostContainer ==
    /\ pPc = "container" /\ Len(pContainers) < Len(pUploaded)
    /\ \E ok \in BOOLEAN :
          IF ok
          THEN /\ pContainers' = Append(pContainers, pUploaded[Len(pContainers) + 1])
               /\ UNCHANGED <<pPc, pErr>>
          ELSE PostFail("container") /\ UNCHANGED pContainers
    /\ UNCHANGED <<pImages, pShort, pUploaded, pText, pPost, pReady, mainVars, textVars>>

PostCarouselBeforeLast ==
    /\ pPc = "container" /\ Len(pContainers) >= Len(pUploaded) - 1
    /\ \E ok \in BOOLEAN :
          IF ok
          THEN /\ pPost' = [NoPost EXCEPT !.kind = "carousel", !.text = pText,
                                          !.children = pContainers, !.ready = pReady]
               /\ pPc' = "done" /\ UNCHANGED pErr
          ELSE PostFail("carousel") /\ UNCHANGED pPost
    /\ UNCHANGED <<pImages, pShort, pUploaded, pText, pContainers, pReady, mainVars, textVars>>

\* postCarousel after its loop: CreateCarouselPost creates and publishes the
\* carousel
PostCarousel ==
    /\ pPc = "container" /\ Len(pContainers) = Len(pUploaded)
    /\ \E ok \in BOOLEAN :
          IF ok
          THEN /\ pPost' = [NoPost EXCEPT !.kind = "carousel", !.text = pText,
                                          !.children = pContainers, !.ready = pReady]
               /\ pPc' = "done" /\ UNCHANGED pErr
          ELSE PostFail("carousel") /\ UNCHANGED pPost
    /\ UNCHANGED <<pImages, pShort, pUploaded, pText, pContainers, pReady, mainVars, textVars>>

\* Threads finishes processing the oldest media container still in progress
ThreadsFinishes ==
    /\ pReady < Len(pContainers)
    /\ pReady' = pReady + 1
    /\ UNCHANGED <<pImages, pShort, pPc, pUploaded, pText, pContainers, pPost, pErr, mainVars, textVars>>

NextPoster ==
    \/ PostStart
    \/ PostUpload
    \/ PostFormat
    \/ PostSingleImage
    \/ PostContainer
    \/ PostCarousel
    \/ ThreadsFinishes

SpecPoster == InitPoster /\ [][NextPoster]_vars

(***************************************************************************)
(* The token refresher goroutine next to the loop, on a page of one row    *)
(***************************************************************************)
MaxRefresh == 2

\* what IsTokenExpired and IsTokenExpiringSoon report
TokenStatus == {"expired", "expiringSoon", "valid"}

\* variant: the new token is written to the configuration, not to the client
RefreshTokenConfigOnly(ok) ==
    [token |-> token, issued |-> IF ok THEN issued + 1 ELSE issued]

\* ThreadsClient.RefreshToken: on success Threads issues a new token, which the
\* client holds from then on
RefreshToken(ok) ==
    [token |-> IF ok THEN issued + 1 ELSE token, issued |-> IF ok THEN issued + 1 ELSE issued]

\* the initial delay of the refresher
RefStart ==
    /\ Alive
    /\ refPc = "delay"
    /\ refPc' = "check"
    /\ UNCHANGED <<store, dbVars, loopVars, poolVars, cyclesLeft, limit, page, textVars,
                   posterVars, token, issued, migVars, usedToken, histVars, shutVars>>

\* one pass of the refresher: the token is refreshed when it is expired or
\* expires soon; an error is logged
RefCheck ==
    /\ Alive
    /\ refPc = "check"
    /\ \E st \in TokenStatus, ok \in BOOLEAN :
          IF st = "valid"
          THEN UNCHANGED <<token, issued>>
          ELSE /\ ok => issued < MaxRefresh
               /\ token' = RefreshToken(ok).token
               /\ issued' = RefreshToken(ok).issued
    /\ refPc' = "sleep"
    /\ UNCHANGED <<store, dbVars, loopVars, poolVars, cyclesLeft, limit, page, textVars,
                   posterVars, migVars, usedToken, histVars, shutVars>>

\* time.Sleep(24 * time.Hour)
RefSleep ==
    /\ Alive
    /\ refPc = "sleep"
    /\ refPc' = "check"
    /\ UNCHANGED <<store, dbVars, loopVars, poolVars, cyclesLeft, limit, page, textVars,
                   posterVars, token, issued, migVars, usedToken, histVars, shutVars>>

InitToken ==
    /\ InitCommon /\ TextIdle /\ PosterIdle
    /\ limit = 1 /\ page = Documents /\ budget = MaxFaults /\ cyclesLeft = MaxCycles

NextToken ==
    \/ Next
    \/ RefStart
    \/ RefCheck
    \/ RefSleep

SpecToken == InitToken /\ [][NextToken]_vars

\* ---------------------------------------------------------------------
\* FetchLatestDocuments on a page.  A page is the li elements inside
\* ul.event-wrapper in document order: parent[n] is the li that encloses li n
\* (0: none), active[n] says that li n holds an .event-title.active element
\* of its own with text, rows[n] are the li.document-row of li n's own list.
MaxNodes == 3
MaxRows == 2
MaxLimit == 3

\* the parent of li n is none, the li before it, or that one's parent
Pages(D) ==
    LET Shapes == {p \in [1..MaxNodes -> 0..MaxNodes] :
                      /\ p[1] = 0
                      /\ \A n \in 2..MaxNodes : p[n] \in {0, n - 1, p[n - 1]}}
    IN  {[fn |-> "FetchLatestDocuments", parent |-> p, active |-> a, rows |-> r, limit |-> l] :
            p \in Shapes, a \in [1..MaxNodes -> BOOLEAN],
            r \in [1..MaxNodes -> SeqsUpTo(D, MaxRows)], l \in 1..MaxLimit}

\* li m is li n or lies inside it
RECURSIVE Within(_, _, _)
Within(parent, m, n) ==
    \/ m = n
    \/ parent[m] # 0 /\ Within(parent, parent[m], n)

\* e.ForEach("li", ...): every li from the n-th on for which
\* el.ChildText(".event-title.active") is not empty appends, by
\* el.ForEach("li.document-row", ...), the rows inside it in document order
RECURSIVE collect(_, _)
collect(pg, n) ==
    LET last == Len(pg.parent)
        RECURSIVE RowsInside(_)
        RowsInside(m) ==
            IF m > last THEN <<>>
            ELSE (IF Within(pg.parent, m, n) THEN pg.rows[m] ELSE <<>>) \o RowsInside(m + 1)
        HasActiveTitle == \E m \in 1..last : Within(pg.parent, m, n) /\ pg.active[m]
    IN  IF n > last THEN <<>>
        ELSE (IF HasActiveTitle THEN RowsInside(1) ELSE <<>>) \o collect(pg, n + 1)

\* the bubble sort: pass i lets j run over the first Len(s) - i - 1 places
\* and swaps two neighbours when the first was published before the second
sortDocumentsByDate(s) ==
    LET RECURSIVE bubble(_, _, _)
        bubble(t, j, last) ==
            IF j > last THEN t
            ELSE bubble(IF t[j].published < t[j + 1].published
                        THEN [t EXCEPT ![j] = t[j + 1], ![j + 1] = t[j]]
                        ELSE t, j + 1, last)
        RECURSIVE sortFrom(_, _)
        sortFrom(t, i) ==
            IF i > Len(t) - 2 THEN t ELSE sortFrom(bubble(t, 1, Len(t) - i - 1), i + 1)
    IN  sortFrom(s, 0)

\* variant: the listing is cut to the limit before it is sorted
FetchLatestDocumentsCutFirst(pg, visitOk) ==
    LET documents == collect(pg, 1)
        cut == IF Len(documents) > pg.limit THEN SubSeq(documents, 1, pg.limit) ELSE documents
    IN  IF ~visitOk THEN [err |-> "visit", docs |-> <<>>]
        ELSE IF Len(documents) = 0 THEN [err |-> "no documents", docs |-> <<>>]
        ELSE [err |-> "nil", docs |-> sortDocumentsByDate(cut)]

FetchLatestDocuments(pg, visitOk) ==
    LET documents == collect(pg, 1)
        sorted == sortDocumentsByDate(documents)
    IN  IF ~visitOk THEN [err |-> "visit", docs |-> <<>>]
        ELSE IF Len(documents) = 0 THEN [err |-> "no documents", docs |-> <<>>]
        ELSE [err |-> "nil",
              docs |-> IF Len(sorted) > pg.limit THEN SubSeq(sorted, 1, pg.limit) ELSE sorted]

InitListing == InitRest /\ PosterIdle /\ tCall \in Pages(Documents) /\ tOut = <<>> /\ tPc = "call"

ApplyFetchLatestDocuments ==
    /\ tPc = "call" /\ tCall.fn = "FetchLatestDocuments"
    /\ \E visitOk \in BOOLEAN : tOut' = FetchLatestDocuments(tCall, visitOk)
    /\ tPc' = "done"
    /\ UNCHANGED <<tCall, mainVars, posterVars>>

SpecListing == InitListing /\ [][ApplyFetchLatestDocuments]_vars

\* ---------------------------------------------------------------------
\* NewPostgres: the checks, then the migration in a transaction or the
\* creation of the table.  The rows of the table are store; rows under
\* processed_documents_url_key never share a url.
InitMigration ==
    LET Rows == {[title |-> t, url |-> u, timestamp |-> 1] :
                    t \in {TitleDoc, TitleRecalled}, u \in {"u1", "u2"}}
        UrlUnique(S) == \A r1, r2 \in S : r1.url = r2.url => r1 = r2
        \* table processed_documents: absent, with processed_documents_url_key,
        \* with processed_documents_title_url_key
        SchemaShapes ==
            {[table |-> FALSE, urlKey |-> FALSE, titleUrlKey |-> FALSE],
             [table |-> TRUE, urlKey |-> TRUE, titleUrlKey |-> FALSE],
             [table |-> TRUE, urlKey |-> FALSE, titleUrlKey |-> TRUE]}
    IN  /\ InitProcess /\ TextIdle /\ PosterIdle
        /\ limit = MaxDocs /\ page = Documents /\ budget = MaxFaults /\ cyclesLeft = MaxCycles
        /\ schema \in SchemaShapes
        /\ store \in {SetToBag(S) : S \in {T \in SUBSET Rows :
                          /\ ~schema.table => T = {}
                          /\ schema.urlKey => UrlUnique(T)}}
        /\ tx = NoTx
        /\ newPc = "probe"
        /\ newErr = "nil"
        /\ initial = [schema |-> schema, rows |-> store]

\* db.Ping, the query for the table and, when it exists, the query for
\* processed_documents_url_key; each error is returned
NewProbe ==
    /\ newPc = "probe"
    /\ \E r \in {"nil", "ping", "tableQuery", "constraintQuery"} :
        /\ r = "constraintQuery" => schema.table
        /\ IF r # "nil"
           THEN newPc' = "returned" /\ newErr' = r
           ELSE /\ newPc' = IF ~schema.table THEN "create"
                            ELSE IF schema.urlKey THEN "begin" ELSE "returned"
                /\ UNCHANGED newErr
    /\ UNCHANGED <<schema, tx, initial, store, dbVars, loopVars, poolVars, cyclesLeft, limit, page, textVars,
                   posterVars, clientVars, usedToken, histVars, shutVars>>

\* db.Begin
NewBegin ==
    /\ newPc = "begin"
    /\ \E ok \in BOOLEAN :
        IF ok
        THEN /\ tx' = [open |-> TRUE, urlKey |-> schema.urlKey, titleUrlKey |-> schema.titleUrlKey]
             /\ newPc' = "drop"
             /\ UNCHANGED newErr
        ELSE newPc' = "returned" /\ newErr' = "begin" /\ UNCHANGED tx
    /\ UNCHANGED <<schema, initial, store, dbVars, loopVars, poolVars, cyclesLeft, limit, page, textVars,
                   posterVars, clientVars, usedToken, histVars, shutVars>>

\* variant: the constraint is dropped outside the transaction
NewDropAutoCommit ==
    /\ newPc = "drop"
    /\ \E ok \in BOOLEAN :
        IF ok
        THEN /\ tx' = [tx EXCEPT !.urlKey = FALSE]
             /\ schema' = [schema EXCEPT !.urlKey = FALSE]
             /\ newPc' = "add"
             /\ UNCHANGED newErr
        ELSE tx' = NoTx /\ newPc' = "returned" /\ newErr' = "drop" /\ UNCHANGED schema
    /\ UNCHANGED <<initial, store, dbVars, loopVars, poolVars, cyclesLeft, limit, page, textVars,
                   posterVars, clientVars, usedToken, histVars, shutVars>>

\* tx.Exec(DROP CONSTRAINT processed_documents_url_key); on an error the
\* transaction is rolled back, by tx.Rollback or by the server when that fails
NewDrop ==
    /\ newPc = "drop"
    /\ \E ok \in BOOLEAN :
        IF ok
        THEN tx' = [tx EXCEPT !.urlKey = FALSE] /\ newPc' = "add" /\ UNCHANGED newErr
        ELSE tx' = NoTx /\ newPc' = "returned" /\ newErr' = "drop"
    /\ UNCHANGED <<schema, initial, store, dbVars, loopVars, poolVars, cyclesLeft, limit, page, textVars,
                   posterVars, clientVars, usedToken, histVars, shutVars>>

\* tx.Exec(ADD CONSTRAINT processed_documents_title_url_key UNIQUE(title, url));
\* it fails when a constraint of that name exists; on an error the
\* transaction is rolled back
NewAdd ==
    /\ newPc = "add"
    /\ \E ok \in BOOLEAN :
        IF ok /\ ~tx.titleUrlKey
        THEN tx' = [tx EXCEPT !.titleUrlKey = TRUE] /\ newPc' = "commit" /\ UNCHANGED newErr
        ELSE tx' = NoTx /\ newPc' = "returned" /\ newErr' = "add"
    /\ UNCHANGED <<schema, initial, store, dbVars, loopVars, poolVars, cyclesLeft, limit, page, textVars,
                   posterVars, clientVars, usedToken, histVars, shutVars>>

\* tx.Commit: the changes take effect together; when it returns an error the
\* transaction was aborted or the answer of a commit that took place was lost
NewCommit ==
    /\ newPc = "commit"
    /\ \E r \in {"nil", "aborted", "lost"} :
        /\ schema' = IF r = "aborted" THEN schema
                     ELSE [schema EXCEPT !.urlKey = tx.urlKey, !.titleUrlKey = tx.titleUrlKey]
        /\ newErr' = IF r = "nil" THEN "nil" ELSE "commit"
    /\ tx' = NoTx
    /\ newPc' = "returned"
    /\ UNCHANGED <<initial, store, dbVars, loopVars, poolVars, cyclesLeft, limit, page, textVars,
                   posterVars, clientVars, usedToken, histVars, shutVars>>

\* CREATE TABLE IF NOT EXISTS processed_documents (..., UNIQUE(title, url))
NewCreate ==
    /\ newPc = "create"
    /\ \E ok \in BOOLEAN :
        IF ok
        THEN /\ schema' = [table |-> TRUE, urlKey |-> FALSE, titleUrlKey |-> TRUE]
             /\ UNCHANGED newErr
        ELSE newErr' = "create" /\ UNCHANGED schema
    /\ newPc' = "returned"
    /\ UNCHANGED <<tx, initial, store, dbVars, loopVars, poolVars, cyclesLeft, limit, page, textVars,
                   posterVars, clientVars, usedToken, histVars, shutVars>>

NextMigration ==
    \/ NewProbe
    \/ NewBegin
    \/ NewDrop
    \/ NewAdd
    \/ NewCommit
    \/ NewCreate

SpecMigration == InitMigration /\ [][NextMigration]_vars

(***************************************************************************)
(* Properties                                                              *)
(***************************************************************************)

C2_FalseNegativeNotPublished ==
    ~dupListed =>
        /\ \A u \in BagToSet(units) : u.fn => ~u.posted
        /\ loopFn => ~noticeOk

\* C2: a pipeline started on a false negative of IsDocumentProcessed may publish
\* its document again, but the existence check of AddProcessedDocument keeps it
\* from inserting a second row: it never reaches the INSERT
C2_FalseNegativeNeverInserts ==
    /\ \A u \in BagToSet(units) : u.fn => u.pc # "insert"
    /\ loopFn => loopPc # "insert"

\* a unit started on a false negative has published and has come back from
\* AddProcessedDocument
C2_FalseNegativePublished ==
    \E u \in BagToSet(units) :
        /\ u.fn /\ u.posted /\ u.pc = "release" /\ ~u.markErr
        /\ published[KeyOf(u.doc)] = 2
        /\ ~dupListed

\* C3: a call of IsDocumentProcessed always returns to the loop; it returns
\* false when its query fails, and when the query succeeds it returns true
\* exactly when a row with the same title and url exists; the table is unchanged
C3_IsProcessedFailsOpen ==
    [][loopPc = "isproc" /\ loopPc' # "isproc" /\ pcMain' # "exited" =>
        /\ loopPc' = "branch"
        /\ store' = store
        /\ ~(connOpen /\ dbUp) => ~processed'
        /\ (connOpen /\ dbUp) =>
            (processed' <=> \E r \in BagToSet(store) :
                                r.title = docs[idx].title /\ r.url = docs[idx].url)
    ]_vars

\* the query failed for a document whose row exists and the call returned false
C3_FalseNegativeReturned == loopPc = "branch" /\ checkErr /\ loopFn /\ ~processed

\* C4: a row is in the table only for a key whose publish call has succeeded; a
\* unit is between the publish call and the end of AddProcessedDocument only
\* when its publish call succeeded; a unit whose download, render or publish
\* failed has published nothing and goes to its end without a store call
C4_RecordOnlyAfterPublish ==
    /\ \A r \in BagToSet(store) : published[<<r.title, r.url>>] >= 1
    /\ \A u \in BagToSet(units) :
        /\ u.pc \in {"guard", "check", "insert"} => u.posted /\ u.failed = "none"
        /\ u.failed # "none" => ~u.posted /\ u.pc \in {"release", "wgdone"}
        /\ u.markErr => u.posted

\* one unit has published and recorded its document while another, whose
\* download, render or publish failed, ends with no row for its document
C4_OneRecordedOneFailed ==
    \E u, v \in BagToSet(units) :
        /\ u.pc = "release" /\ u.posted /\ ~u.markErr
        /\ RowExists(store, u.doc.title, u.doc.url)
        /\ v.pc = "release" /\ v.failed \in {"download", "render", "post"}
        /\ ~RowExists(store, v.doc.title, v.doc.url)

C6_ExistingKeyReturnsSuccess ==
    [][/\ (loopPc = "mark" /\ loopPc' # "mark" /\ pcMain' # "exited"
           /\ RowExists(store, docs[idx].title, docs[idx].url)) =>
            (store' = store /\ loopPc' = "markDone" /\ ~markErr')
       /\ \A u \in BagToSet(units) : \A v \in BagToSet(units') :
            (/\ u.pc = "check"
             /\ v.pc # "check"
             /\ units' = (units (-) SetToBag({u})) (+) SetToBag({v})
             /\ RowExists(store, u.doc.title, u.doc.url)) =>
                (store' = store /\ v.pc = "release" /\ ~v.markErr)
    ]_vars

\* C6: a call of AddProcessedDocument for a key that has a row leaves the table
\* unchanged and does not reach the INSERT; it returns success when its
\* existence query is answered and an error when that query fails
C6_ExistingKeyLeavesStore ==
    [][/\ (loopPc = "mark" /\ loopPc' # "mark" /\ pcMain' # "exited"
           /\ RowExists(store, docs[idx].title, docs[idx].url)) =>
            (store' = store /\ loopPc' = "markDone" /\ (markErr' <=> ~(connOpen /\ dbUp)))
       /\ \A u \in BagToSet(units) : \A v \in BagToSet(units') :
            (/\ u.pc = "check"
             /\ v.pc # "check"
             /\ units' = (units (-) SetToBag({u})) (+) SetToBag({v})
             /\ RowExists(store, u.doc.title, u.doc.url)) =>
                (store' = store /\ v.pc = "release" /\ (v.markErr <=> ~(connOpen /\ dbUp)))
    ]_vars

\* the loop has called AddProcessedDocument for a key that already had a row and
\* the call returned success
C6_SecondCallSucceeded ==
    /\ loopPc = "markDone"
    /\ loopFn
    /\ marked = 1
    /\ ~markErr
    /\ RowExists(store, docs[idx].title, docs[idx].url)

\* C7: the table holds at most one row per (title, url)
C7_OneRowPerKey ==
    \A r1, r2 \in BagToSet(store) :
        /\ CopiesIn(r1, store) = 1
        /\ (r1.title = r2.title /\ r1.url = r2.url) => r1 = r2

\* two calls of AddProcessedDocument for one key interleave: a unit has passed
\* its existence check and is about to insert, and the row is already there
C7_InsertAfterOtherInsert ==
    \E u \in BagToSet(units) :
        u.pc = "insert" /\ ~u.fn /\ RowExists(store, u.doc.title, u.doc.url)

\* C8: at most maxConcurrentProcessing units run at a time; every running unit
\* holds one slot of the semaphore; no unit is started while all slots are held
C8_AtMostFiveUnits ==
    /\ [](/\ semaphore <= maxConcurrentProcessing
          /\ BagCardinality([u \in {x \in BagToSet(units) : x.pc # "wgdone"} |-> units[u]])
                = semaphore)
    /\ [][semaphore = maxConcurrentProcessing => wg' <= wg]_vars

\* all slots are held and the loop is blocked on the semaphore with a further document
C8_DispatchBlocked == semaphore = maxConcurrentProcessing /\ loopPc = "acquire"

\* C9: the WaitGroup counts the units that have not finished; while the loop
\* sleeps, starts a cycle or lists documents, no unit is running; every
\* running unit was dispatched in the current cycle
C9_CyclesDoNotOverlap ==
    /\ wg = BagCardinality(units)
    /\ (loopPc \in {"sleep", "select", "fetch"} \/ (loopPc = "guard" /\ idx = 0)) =>
            (units = EmptyBag /\ wg = 0 /\ semaphore = 0)
    /\ \A u \in BagToSet(units) : u.cy = cyclesLeft

\* the loop is held in wg.Wait() by a unit of its second cycle
C9_LoopWaitsForUnits == loopPc = "wait" /\ wg > 0 /\ cyclesLeft = 0

\* C10 as stated: once a single shutdown signal has been delivered, the
\* process eventually exits (unless a second signal arrives)
C10_ExitsAfterOneSignal == (signals = 1) ~> (pcMain = "exited" \/ signals > 1)

\* C11: a call of waitForDBConnection returns at once, without a reconnect,
\* when its probe succeeds; when the probe fails it sleeps the short interval
\* and makes one reconnect attempt, and after a failed attempt it sleeps the
\* long interval and reconnects, again and again; it returns only on a
\* successful probe or a successful reconnect, which leaves the handle open,
\* and no step of it ends the process
C11_GuardRetriesUntilConnected ==
    [][/\ (loopPc = "guard" /\ loopG' # loopG /\ pcMain' # "exited") =>
            /\ pcMain' = pcMain
            /\ loopG = "probe" =>
                IF connOpen /\ dbUp
                THEN loopG' = "none" /\ connOpen' = connOpen
                ELSE loopG' = "short"
            /\ loopG = "short" => loopG' = "shortPing" /\ ~connOpen'
            /\ loopG = "long" => loopG' = "longPing" /\ ~connOpen'
            /\ loopG \in {"shortPing", "longPing"} =>
                IF dbUp THEN loopG' = "none" /\ connOpen' ELSE loopG' = "long"
            /\ loopG' = "none" => loopPc' \in {"fetch", "isproc"}
            /\ loopG' # "none" => loopPc' = "guard"
       /\ \A u \in BagToSet(units) : \A v \in BagToSet(units') :
            (/\ u.pc = "guard"
             /\ v.g # u.g
             /\ units' = (units (-) SetToBag({u})) (+) SetToBag({v})) =>
                /\ pcMain' = pcMain
                /\ u.g = "probe" =>
                    IF connOpen /\ dbUp
                    THEN v.g = "none" /\ connOpen' = connOpen
                    ELSE v.g = "short"
                /\ u.g = "short" => v.g = "shortPing" /\ ~connOpen'
                /\ u.g = "long" => v.g = "longPing" /\ ~connOpen'
                /\ u.g \in {"shortPing", "longPing"} =>
                    IF dbUp THEN v.g = "none" /\ connOpen' ELSE v.g = "long"
                /\ v.g = "none" => v.pc = "check"
                /\ v.g # "none" => v.pc = "guard"
    ]_vars

\* the guard of a unit is in its loop of long intervals: its probe and a
\* reconnect attempt have failed, the handle is closed and the server is down
C11_UnitInLongRound ==
    \E u \in BagToSet(units) : u.pc = "guard" /\ u.g = "long" /\ ~connOpen /\ ~dbUp

\* C12 as stated: at no time are two Reconnect calls on the shared store in
\* progress, counting the loop and every unit
C12_ReconnectsSerialized ==
    BagCardinality([u \in {x \in BagToSet(units) : x.g \in {"shortPing", "longPing"}}
                        |-> units[u]])
        + (IF loopG \in {"shortPing", "longPing"} THEN 1 ELSE 0) <= 1

\* C13: whenever the header leaves a budget of at least zero characters, the
\* text formatPostText builds is at most 500 characters long, and the text
\* PostTextOnly submits is at most 500 characters long for every input text.
C13_TextWithinLimit ==
    tPc = "done" =>
        /\ (tCall.fn = "formatPostText"
                /\ remainingChars(tCall.title, tCall.time, tCall.short) >= 0)
              => Len(tOut) <= maxCharacterLimit
        /\ tCall.fn = "PostTextOnly" => Len(tOut) <= maxCharacterLimit

\* a summary longer than the budget was cut and the post text fills the limit
C13_SummaryCutToBudget ==
    /\ tPc = "done" /\ tCall.fn = "formatPostText"
    /\ remainingChars(tCall.title, tCall.time, tCall.short) > Len(ellipsis)
    /\ Len(tCall.text) > remainingChars(tCall.title, tCall.time, tCall.short)
    /\ Len(tOut) = maxCharacterLimit

\* C14 as stated: a text that fits is returned unchanged, a limit without room
\* beyond the ellipsis gives the empty text, and otherwise the kept part ends
\* at the last word boundary at or before the cutoff (the next character of
\* the text is a space) and the ellipsis follows it.
C14_NeverSplitsWord ==
    (tPc = "done" /\ tCall.fn = "truncateText") =>
        LET text == tCall.text
            cut == tCall.lim - Len(ellipsis)
            k == Len(tOut) - Len(ellipsis)
            boundaries == {j \in 0..cut : text[j + 1] = " "}
        IN  /\ Len(text) <= tCall.lim => tOut = text
            /\ (Len(text) > tCall.lim /\ cut <= 0) => tOut = <<>>
            /\ (Len(text) > tCall.lim /\ cut > 0) =>
                  /\ boundaries # {}
                  /\ k = CHOOSE j \in boundaries : \A i \in boundaries : i <= j
                  /\ tOut = SubSeq(text, 1, k) \o ellipsis

\* C14 amended: a text that fits is returned unchanged, a limit without room
\* beyond the ellipsis gives the empty text, and otherwise the kept part ends
\* just before the last space among the first limit - 3 characters, or, when
\* there is no space among them, is exactly the first limit - 3 characters,
\* wherever that falls; the ellipsis follows it.
C14_CutsAtLastSpaceElseAtLimit ==
    (tPc = "done" /\ tCall.fn = "truncateText") =>
        LET text == tCall.text
            cut == tCall.lim - Len(ellipsis)
            spaces == {i \in 1..cut : text[i] = " "}
            kept == IF spaces = {}
                    THEN cut
                    ELSE (CHOOSE i \in spaces : \A j \in spaces : j <= i) - 1
        IN  /\ Len(text) <= tCall.lim => tOut = text
            /\ (Len(text) > tCall.lim /\ cut <= 0) => tOut = <<>>
            /\ (Len(text) > tCall.lim /\ cut > 0) => tOut = SubSeq(text, 1, kept) \o ellipsis

\* a text without a space before the cutoff was cut inside a word
C14_WordSplit ==
    /\ tPc = "done" /\ tCall.fn = "truncateText"
    /\ Len(tCall.text) > tCall.lim /\ tCall.lim - Len(ellipsis) > 0
    /\ \A i \in 1..(tCall.lim - Len(ellipsis) + 1) : tCall.text[i] # " "
    /\ tOut = SubSeq(tCall.text, 1, tCall.lim - Len(ellipsis)) \o ellipsis

\* C15: the images uploaded are the first ones in order and never more than
\* twenty; once uploadImages has returned without error, all n images are
\* uploaded for n <= 20 and exactly the first 20 for n > 20; and a call with
\* more than 20 images is never rejected for its image count.
C15_CapAtTwenty ==
    /\ \A i \in 1..Len(pUploaded) : pUploaded[i] = i /\ i <= 20
    /\ (pPc \in {"single", "container"} \/ (pPc = "done" /\ pErr # "upload")) =>
          Len(pUploaded) = IF pImages > 20 THEN 20 ELSE pImages
    /\ pImages > 20 => pErr # "count"

\* a call with 22 images succeeded with 20 uploads
C15_TwentyOfTwentyTwo ==
    /\ pImages = 22 /\ pPc = "done" /\ pErr = "none"
    /\ Len(pUploaded) = 20 /\ pPost.kind = "carousel"

\* C16: a single-image post is created only for exactly one image and a
\* carousel only for two to twenty; a call that returns without error has
\* created the post its image count asks for; and a call with no image
\* returns the image-count error without a media container or a post.
C16_FlowByImageCount ==
    /\ pPc = "single" => Len(pUploaded) = 1
    /\ pPc = "container" => Len(pUploaded) \in 2..20
    /\ pPost.kind = "single" => Len(pUploaded) = 1 /\ pPost.image = 1
    /\ pPost.kind = "carousel" => Len(pUploaded) \in 2..20
    /\ (pPc = "done" /\ pErr = "none") =>
          pPost.kind = IF Len(pUploaded) = 1 THEN "single" ELSE "carousel"
    /\ pErr = "count" => pImages = 0
    /\ (pImages = 0 /\ pPc = "done") =>
          pErr = "count" /\ pPost = NoPost /\ pContainers = <<>> /\ pUploaded = <<>>

\* a call without images has returned the image-count error
C16_NoImageRejected == pImages = 0 /\ pPc = "done" /\ pErr = "count" /\ pPost = NoPost

\* C17: the media containers are created one per image in image order; a
\* carousel exists only when every image has its container, references all
\* of them in that order, and ends the call; and a failed container creation
\* ends the call without a carousel.
C17_CarouselOrder ==
    /\ Len(pContainers) <= Len(pUploaded)
    /\ \A i \in 1..Len(pContainers) : pContainers[i] = pUploaded[i]
    /\ pPost.kind = "carousel" =>
          /\ pPost.children = pUploaded
          /\ pContainers = pUploaded
          /\ pPc = "done" /\ pErr = "none"
    /\ pErr = "container" => pPc = "done" /\ pPost = NoPost /\ Len(pContainers) < Len(pUploaded)

\* a carousel of three images was created after its three containers
C17_CarouselOfThree ==
    /\ pImages = 3 /\ pPost.kind = "carousel" /\ pPost.children = <<1, 2, 3>>

\* C18 as stated: when the carousel is assembled every media container it
\* references has been confirmed ready.
C18_ContainersReadyBeforeCarousel ==
    pPost.kind = "carousel" => pPost.ready = Len(pPost.children)

\* C19: a unit whose summarization failed after a successful download is
\* ended only by a failed conversion to images or a failed publish call;
\* when the conversion succeeds its next call is the publish call, made with
\* the empty summary; and when that call succeeds the unit goes on to
\* AddProcessedDocument and ends with the document's row in the table, unless
\* that call returned a store error.
C19_SummaryFailureDoesNotAbort ==
    \A u \in BagToSet(units) :
        u.summary = "empty" =>
            /\ u.failed \in {"none", "render", "post"}
            /\ u.failed = "none" =>
                  /\ u.pc \in {"post", "guard", "check", "insert", "release", "wgdone"}
                  /\ u.pc # "post" => u.posted
            /\ (u.posted /\ u.pc \in {"release", "wgdone"}) =>
                  RowExists(store, u.doc.title, u.doc.url) \/ u.markErr

\* a document was published without a summary and recorded
C19_PublishedWithoutSummary ==
    \E u \in BagToSet(units) :
        /\ u.summary = "empty" /\ u.posted /\ u.pc = "release" /\ ~u.markErr
        /\ RowExists(store, u.doc.title, u.doc.url)

\* C20: the step of a unit in which the conversion to images fails ends the
\* unit: it goes to its deferred calls without a publish call and without a
\* store write, then and later; a key whose conversion failed and that was
\* never published has no row; and when a later listing holds such a key,
\* IsDocumentProcessed returns false for it and the loop dispatches it again.
C20_RenderFailureAborts ==
    /\ [](\A u \in BagToSet(units) :
            u.failed = "render" =>
                ~u.posted /\ ~u.markErr /\ u.pc \in {"release", "wgdone"})
    /\ [](\A d \in Documents :
            (KeyOf(d) \in renderFailed /\ published[KeyOf(d)] = 0) =>
                ~RowExists(store, d.title, d.url))
    /\ [][/\ \A u \in BagToSet(units) : \A v \in BagToSet(units') :
                (/\ u.pc = "prepare" /\ v.failed = "render"
                 /\ units' = (units (-) SetToBag({u})) (+) SetToBag({v})) =>
                    /\ v.pc = "release" /\ ~v.posted
                    /\ store' = store /\ published' = published
          /\ (/\ loopPc = "isproc" /\ loopPc' # "isproc" /\ pcMain' # "exited"
              /\ KeyOf(docs[idx]) \in renderFailed
              /\ ~RowExists(store, docs[idx].title, docs[idx].url)) => ~processed'
          /\ (/\ loopPc = "branch" /\ loopPc' # "branch" /\ pcMain' # "exited"
              /\ KeyOf(docs[idx]) \in renderFailed /\ ~processed) => loopPc' = "acquire"
       ]_vars

\* in the second cycle a unit starts on a document whose conversion failed in
\* the first
C20_DispatchedAgain ==
    /\ ~dupListed
    /\ \E u \in BagToSet(units) :
        /\ u.pc = "prepare" /\ u.cy = 0
        /\ KeyOf(u.doc) \in renderFailed
        /\ published[KeyOf(u.doc)] = 0

\* C21 as stated: a unit whose download carried the recall signal or whose
\* downloaded file failed validation is on the notice path: it is about to
\* publish the notice, the notice failed, or the notice is published and the
\* unit goes on to AddProcessedDocument; a unit whose download failed in any
\* other way publishes nothing and writes nothing.
C21_InvalidDownloadGivesNotice ==
    \A u \in BagToSet(units) :
        /\ u.dl \in {"recalled", "invalid", "removeError"} =>
              \/ u.pc = "notice"
              \/ u.failed = "notice" /\ ~u.posted
              \/ u.posted /\ u.pc \in {"guard", "check", "insert", "release", "wgdone"}
        /\ u.dl = "error" =>
              ~u.posted /\ ~u.markErr /\ u.pc \in {"release", "wgdone"}

\* C22: no unit is ever started for a document recalled by its title, so its
\* download is never attempted; the loop takes the notice path only for such
\* a document that IsDocumentProcessed reported new; a successful notice
\* step is one publish call for its key and no further one follows while the
\* loop is on that document; and when the document had no row, the store
\* answers and the write succeeds, AddProcessedDocument is called once and
\* inserts exactly one row, carrying the document's published time.
C22_RecalledByTitle ==
    /\ [](\A u \in BagToSet(units) : ~IsRecalledDocument(u.doc))
    /\ [](loopPc \in {"notice", "mark", "insert", "markDone"} =>
            IsRecalledDocument(docs[idx]) /\ ~processed)
    /\ []((loopPc = "markDone" /\ ~markErr) =>
            /\ noticeOk /\ marked = 1
            /\ \E r \in BagToSet(store) :
                  /\ KeyOf(r) = KeyOf(docs[idx])
                  /\ r.timestamp = docs[idx].published
                  /\ store[r] = 1
                  /\ \A q \in BagToSet(store) : KeyOf(q) = KeyOf(docs[idx]) => q = r)
    /\ [][/\ (loopPc = "notice" /\ loopPc' = "mark") =>
                /\ published[KeyOf(docs[idx])] < MaxPub =>
                      published'[KeyOf(docs[idx])] = published[KeyOf(docs[idx])] + 1
                /\ \A k \in Keys \ {KeyOf(docs[idx])} : published'[k] = published[k]
                /\ store' = store /\ units' = units
          /\ loopPc \in {"mark", "insert", "markDone"} =>
                published'[KeyOf(docs[idx])] = published[KeyOf(docs[idx])]
          /\ (/\ loopPc = "mark" /\ loopPc' # "mark" /\ pcMain' # "exited"
              /\ ~loopFn /\ connOpen /\ dbUp) => loopPc' = "insert" /\ store' = store
          /\ (loopPc = "insert" /\ loopPc' # "insert" /\ pcMain' # "exited" /\ ~markErr') =>
                store' = store (+) SetToBag({[title |-> docs[idx].title, url |-> docs[idx].url,
                                             timestamp |-> docs[idx].published]})
       ]_vars

\* the notice of a document recalled by its title is published once and its
\* row written with its published time
C22_NoticeOnceAndRecorded ==
    /\ loopPc = "markDone" /\ ~markErr /\ ~loopFn /\ noticeOk
    /\ published[KeyOf(docs[idx])] = 1
    /\ \E r \in BagToSet(store) :
          KeyOf(r) = KeyOf(docs[idx]) /\ r.timestamp = docs[idx].published

C24_ListingFailureNotFatal ==
    /\ []((loopPc = "fetch" \/ (loopPc = "sleep" /\ idx = 0)) => units = EmptyBag)
    /\ [][/\ (loopPc = "fetch" /\ loopPc' # "fetch" /\ pcMain' # "exited" /\ idx' = 0) =>
                /\ loopPc' = "sleep"
                /\ pcMain' = pcMain
                /\ store' = store /\ published' = published /\ units' = units
          /\ (loopPc = "sleep" /\ idx = 0) => store' = store /\ published' = published
          /\ (loopPc = "sleep" /\ idx = 0 /\ loopPc' # "sleep" /\ pcMain' # "exited") =>
                loopPc' = "select"
       ]_vars

\* the listing failed in a cycle after a document was recorded: the loop
\* sleeps and the record is kept
C24_SleepsAfterFailedListing ==
    loopPc = "sleep" /\ idx = 0 /\ cyclesLeft = 0 /\ store # EmptyBag

C26_OnlyRowsOfActiveGroup ==
    (tPc = "done" /\ tCall.fn = "FetchLatestDocuments") =>
        \A a \in 1..MaxNodes :
            (tCall.active[a] /\ \A b \in 1..MaxNodes : tCall.active[b] => b = a) =>
                \A k \in 1..Len(tOut.docs) :
                    \E m \in 1..MaxNodes :
                        /\ Within(tCall.parent, m, a)
                        /\ \E i \in 1..Len(tCall.rows[m]) : tCall.rows[m][i] = tOut.docs[k]

\* C28: a listing FetchLatestDocuments returns is ordered by published time,
\* most recent first, has at most limit documents, all of them collected
\* ones, and no collected document left out is more recent than a returned one.
C28_SortedAndTruncated ==
    (tPc = "done" /\ tCall.fn = "FetchLatestDocuments" /\ tOut.err = "nil") =>
        LET all == collect(tCall, 1)
            bagOf(s) == [d \in {s[k] : k \in 1..Len(s)} |-> Cardinality({k \in 1..Len(s) : s[k] = d})]
            left == bagOf(all) (-) bagOf(tOut.docs)
        IN  /\ IsSortedByDate(tOut.docs)
            /\ Len(tOut.docs) = IF Len(all) > tCall.limit THEN tCall.limit ELSE Len(all)
            /\ Len(tOut.docs) <= tCall.limit
            /\ bagOf(tOut.docs) \sqsubseteq bagOf(all)
            /\ \A d \in BagToSet(left) :
                   \A k \in 1..Len(tOut.docs) : d.published <= tOut.docs[k].published

\* rows collected oldest first, more of them than the limit, were cut to the
\* limit with the most recent one in front
C28_UnsortedPageTruncated ==
    /\ tPc = "done" /\ tCall.fn = "FetchLatestDocuments" /\ tOut.err = "nil"
    /\ collect(tCall, 1) = <<DocB, DocR, DocA>>
    /\ tCall.limit = 2
    /\ tOut.docs = <<DocA, DocR>>

\* C29: NewPostgres started on a database without the table, with the table
\* under the unique key on url, or with the table under the unique key on
\* (title, url), returns without error only when the table exists with the
\* key on (title, url) and without the key on url, so that an insert is
\* refused exactly when a row with its title and url exists; it never
\* changes the rows; the table is at no moment without a unique key; and when
\* dropping the old key or adding the new one fails, NewPostgres returns an
\* error and the schema is the one it started with.
C29_MigrationKeepsUniqueness ==
    LET Refused(rec) ==
            \/ schema.urlKey /\ \E r \in BagToSet(store) : r.url = rec.url
            \/ schema.titleUrlKey /\
                  \E r \in BagToSet(store) : r.url = rec.url /\ r.title = rec.title
    IN  /\ store = initial.rows
        /\ schema.table => (schema.urlKey \/ schema.titleUrlKey)
        /\ (newPc = "returned" /\ newErr = "nil") =>
              /\ schema = [table |-> TRUE, urlKey |-> FALSE, titleUrlKey |-> TRUE]
              /\ \A t \in {TitleDoc, TitleRecalled}, u \in {"u1", "u2"} :
                    Refused([title |-> t, url |-> u, timestamp |-> 2])
                        <=> RowExists(store, t, u)
        /\ (newPc = "returned" /\ newErr \in {"drop", "add"}) =>
              /\ schema = initial.schema
              /\ schema.urlKey
        /\ (newPc = "returned" /\ initial.schema.urlKey /\ schema = initial.schema) =>
              newErr # "nil"

\* the key on url was replaced while the table held two rows
C29_MigratedWithRows ==
    /\ newPc = "returned" /\ newErr = "nil"
    /\ initial.schema.urlKey
    /\ ~schema.urlKey /\ schema.titleUrlKey
    /\ BagCardinality(store) = 2

\* C30 as stated: the loop comes to IsDocumentProcessed and to
\* AddProcessedDocument, and a unit comes to AddProcessedDocument, only by
\* the step in which waitForDBConnection returns.
C30_GuardBeforeEveryStoreAccess ==
    [][/\ (loopPc' \in {"isproc", "mark"} /\ loopPc' # loopPc) => loopPc = "guard"
       /\ \A u \in BagToSet(units) : \A v \in BagToSet(units') :
            (/\ units' = (units (-) SetToBag({u})) (+) SetToBag({v})
             /\ v.pc = "check" /\ u.pc # "check") => u.pc = "guard"]_vars

\* C31: the images are uploaded one after the other in the order given, and
\* once an upload has failed Post has returned that error with no text
\* formatted (so no link shortened), no container and no post created, the
\* later images not uploaded, and nothing more is done by the call.
C31_UploadFailureAborts ==
    /\ [](/\ \A i \in 1..Len(pUploaded) : pUploaded[i] = i
          /\ pErr = "upload" =>
                /\ pPc = "done"
                /\ Len(pUploaded) < Capped(pImages)
                /\ pText = <<>> /\ pContainers = <<>> /\ pPost = NoPost)
    /\ [][pErr = "upload" => UNCHANGED posterVars]_vars

\* the third of four images failed to upload
C31_ThirdUploadFailed ==
    pErr = "upload" /\ pPc = "done" /\ pUploaded = <<1, 2>> /\ pImages = 4

\* C32: an error of ShortenURL does not end Post: the text is the one
\* without the link line and the post is created with it when the calls to
\* Threads succeed; the text has the link line exactly when ShortenURL
\* returned a short URL that is not empty.
C32_ShortenFailureDoesNotAbort ==
    LET HasLinkLine(t) ==
            \E i \in 1..Len(t) :
                i + Len(LinkLabel) - 1 <= Len(t)
                    /\ SubSeq(t, i, i + Len(LinkLabel) - 1) = LinkLabel
    IN  /\ pShort # "none" =>
              /\ HasLinkLine(pText) <=> pShort = "ok"
              /\ pShort = "ok" => pText = formatPostText(TitleDoc, TimeUTC, ShortURL, <<"a">>)
              /\ pErr \in {"none", "count", "single", "container", "carousel"}
        /\ pShort = "error" =>
              /\ pText = formatPostText(TitleDoc, TimeUTC, <<>>, <<"a">>)
              /\ pPc = "done" =>
                    \/ pErr \in {"count", "single", "container", "carousel"}
                    \/ pErr = "none" /\ pPost.kind # "none" /\ pPost.text = pText

\* a carousel was published although ShortenURL had failed
C32_PostedWithoutLink ==
    pShort = "error" /\ pPc = "done" /\ pErr = "none" /\ pPost.kind = "carousel"

\* C33: the step in which a unit fails (directory, download, render, notice
\* or publish error) changes nothing of the loop, of the pool counters or of
\* another unit and leaves the unit at its deferred release; the counters
\* always match the units still running; and when the database comes back
\* after every outage, all units of the cycle end and the loop, once it
\* waits for them, reaches its sleep.
C33_UnitFailureIsContained ==
    /\ [][\A u \in BagToSet(units) : \A v \in BagToSet(units') :
            (/\ units' = (units (-) SetToBag({u})) (+) SetToBag({v})
             /\ u.failed = "none" /\ v.failed # "none") =>
                /\ v.pc = "release"
                /\ UNCHANGED <<loopVars, semaphore, wg, store>>]_vars
    /\ [](pcMain # "exited" =>
            /\ wg = BagCardinality(units)
            /\ semaphore = BagCardinality(units)
                   - BagCardinality([u \in {x \in BagToSet(units) : x.pc = "wgdone"}
                                        |-> CopiesIn(u, units)]))
    /\ (\E u \in BagToSet(units) : u.failed # "none")
           ~> (units = EmptyBag \/ pcMain = "exited")
    /\ (loopPc = "wait") ~> (loopPc = "sleep" \/ pcMain = "exited")

\* one unit has failed to publish while the unit of another row is still at
\* work and the loop waits for both
C33_SiblingOfFailedUnit ==
    /\ loopPc = "wait" /\ pcMain # "exited"
    /\ \E u, v \in BagToSet(units) :
        /\ u.failed = "post" /\ u.pc = "release"
        /\ v.doc # u.doc /\ v.failed = "none" /\ v.pc \in {"prepare", "post", "guard"}

\* C34 as stated: a unit that ends leaves no directory behind.
C34_NoDirectoryAfterUnit ==
    \A u \in BagToSet(units) : u.pc = "wgdone" => u.dir \in {"none", "removed"}

\* C34: a unit that has returned from processDocument has called
\* os.RemoveAll on the directory it created, whether it ended by a download
\* error, a recall notice, a render error, a publish error or with the
\* document published, and has no directory only when MkdirAll failed; the
\* directory is left behind only when that os.RemoveAll failed.
C34_RemovalRunsOnEveryPath ==
    \A u \in BagToSet(units) :
        /\ u.pc \in {"notice", "post", "guard", "check", "insert", "release"} =>
              u.dir = IF u.failed = "mkdir" THEN "none" ELSE "present"
        /\ u.pc = "wgdone" =>
              /\ u.dir # "present"
              /\ u.dir = "none" <=> u.failed = "mkdir"

\* a unit whose download failed has removed its directory
C34_RemovedAfterDownloadError ==
    \E u \in BagToSet(units) : u.pc = "wgdone" /\ u.failed = "download" /\ u.dir = "removed"

C36_ConcurrentMarkSucceeds ==
    [][\A u \in BagToSet(units) : \A v \in BagToSet(units') :
          (/\ units' = (units (-) SetToBag({u})) (+) SetToBag({v})
           /\ u.pc = "insert" /\ v.pc = "release"
           /\ connOpen /\ dbUp) => ~v.markErr]_vars

\* C37 as stated: while the database is up, a caller that has come back from
\* waitForDBConnection and is at its store call (IsDocumentProcessed of the
\* loop, AddProcessedDocument of a unit) finds the shared handle open; and
\* the handle is closed only while some caller is inside Reconnect or in the
\* retry loop after a Reconnect that failed.
C37_ReconnectsTolerated ==
    /\ (dbUp /\ pcMain # "exited") =>
          /\ loopPc = "isproc" => connOpen
          /\ \A u \in BagToSet(units) : u.pc \in {"check", "insert"} => connOpen
    /\ (~connOpen /\ pcMain # "exited") =>
          \/ loopG \in {"shortPing", "long", "longPing"}
          \/ \E u \in BagToSet(units) : u.g \in {"shortPing", "long", "longPing"}

\* C38: as long as no store call has failed and no listing has held a key
\* twice, over all cycles and interleavings of the units and with any
\* download, render and publish failures, no key has been published more
\* than once, a key with a row has been published, and no unit that has
\* published is at work for a key that another unit has published.
C38_AtMostOncePerKey ==
    (~storeErr /\ ~dupListed) =>
        /\ \A k \in Keys :
              /\ published[k] <= 1
              /\ RowExists(store, k[1], k[2]) => published[k] = 1
        /\ \A u \in BagToSet(units) :
              u.posted => (published[KeyOf(u.doc)] = 1 /\ CopiesIn(u, units) = 1)

\* a document whose rendering failed in the first cycle has been published,
\* once, by its unit of the second cycle
C38_PublishedOnRetry ==
    /\ ~storeErr /\ ~dupListed /\ cyclesLeft = 0
    /\ \E u \in BagToSet(units) :
        /\ KeyOf(u.doc) \in renderFailed
        /\ u.posted /\ u.pc = "guard"
        /\ published[KeyOf(u.doc)] = 1

\* C39: on a page of PoolDocs unprocessed documents, with every call
\* succeeding, every step of the loop or of a unit lowers a natural-number
\* measure, no state before the end of the cycle's sleep is without a next
\* step, a unit that has returned has published and recorded its document,
\* and at the sleep every listed document is published and recorded and no
\* unit is left: under fair scheduling the cycle reaches its sleep with all of
\* them done, more than maxConcurrentProcessing included.
C39_ListedDocumentsDoneBeforeSleep ==
    /\ [][LET UnitRank(u) ==
                  CASE u.pc = "prepare" -> 7
                    [] u.pc = "post" -> 6
                    [] u.pc = "guard" -> 5
                    [] u.pc = "check" -> 4
                    [] u.pc = "insert" -> 3
                    [] u.pc = "release" -> 2
                    [] OTHER -> 1
              UnitsRank(b) ==
                  BagCardinality([u \in BagToSet(b) |-> CopiesIn(u, b) * UnitRank(u)])
              LoopRank(pc, i, n, left) ==
                  CASE pc = "select" -> IF left > 0 THEN 203 ELSE 0
                    [] pc = "guard" /\ i = 0 -> 202
                    [] pc = "fetch" -> 201
                    [] pc = "guard" -> (n - i) * 15 + 14
                    [] pc = "isproc" -> (n - i) * 15 + 13
                    [] pc = "branch" -> (n - i) * 15 + 12
                    [] pc = "acquire" -> (n - i) * 15 + 11
                    [] pc = "wait" -> 2
                    [] pc = "sleep" -> 1
                    [] OTHER -> 0
          IN  LoopRank(loopPc', idx', Len(docs'), cyclesLeft') + UnitsRank(units')
                  < LoopRank(loopPc, idx, Len(docs), cyclesLeft) + UnitsRank(units)]_vars
    /\ [](~(ENABLED NextProgress) => loopPc = "select" /\ cyclesLeft = 0)
    /\ [](\A u \in BagToSet(units) :
            u.pc \in {"release", "wgdone"} =>
                RowExists(store, u.doc.title, u.doc.url) /\ published[KeyOf(u.doc)] = 1)
    /\ [](loopPc = "sleep" =>
            /\ units = EmptyBag
            /\ \A i \in 1..Len(docs) :
                RowExists(store, docs[i].title, docs[i].url) /\ published[KeyOf(docs[i])] = 1)

\* the loop is at its sleep after a listing of PoolDocs documents, all of them
\* published and recorded
C39_SixDoneAtSleep ==
    /\ loopPc = "sleep" /\ Len(docs) = PoolDocs /\ PoolDocs > maxConcurrentProcessing
    /\ ~HasDuplicateKey(docs)
    /\ \A i \in 1..Len(docs) :
        RowExists(store, docs[i].title, docs[i].url) /\ published[KeyOf(docs[i])] = 1

\* C40: the text formatPostText builds for Post to submit is at most 500
\* characters long for every title, publish time, link and summary, titles
\* whose header alone reaches or exceeds 500 characters included.
C40_TextWithinLimitForEveryTitle ==
    (tPc = "done" /\ tCall.fn = "formatPostText") => Len(tOut) <= maxCharacterLimit


====
